---- MODULE Spec2Model ----
(***************************************************************************)
(* rstore: a store for key/value pairs, time series and event sequences    *)
(* over pluggable backends (SqliteStore, PsqlStore, RedisStore).           *)
(*                                                                         *)
(* The model follows src/rstore/__init__.py (class Store) and the three    *)
(* backend adapters.  A logical key is a sequence of segments, the pieces  *)
(* of the Python string between occurrences of the separator "__", so that *)
(* _ns_key and _un_ns_key are modelled by what they do to the string.      *)
(* Python values are records: ints, floats (exact rationals n/d) and       *)
(* strings (sequences of characters).  bool is the int 0/1, as in Python.  *)
(***************************************************************************)
EXTENDS Integers, Sequences, FiniteSets, TLC

VARIABLES
    backend,    \* which adapter Store.__init__ selected from the dsn
    medium,     \* TRUE iff the namespace's storage exists (file / schema)
    open,       \* the Store object currently inside its with-block, or NoStore
    conn,       \* the Store objects whose backend holds an open connection
    kvTable,    \* table _kv: set of rows [key, value]
    tsTable,    \* table _ts: set of rows [key, ts, value]
    esTable,    \* table _es: set of rows [key, ts, item, op, value, rid]
    last,       \* the last call made on a Store and what it returned or raised
    pre,        \* the three tables as they were when the last call began
    wr          \* position of each concurrent writer inside es_apply

vars == <<backend, medium, open, conn, kvTable, tsTable, esTable, last, pre, wr>>

-----------------------------------------------------------------------------
(* Bounds of the model *)

\* largest number of timestamps with events that the log of one run holds
MaxEvents == 2


-----------------------------------------------------------------------------
(* Python values *)

\* an optional argument is None or <<x>>
None == <<>>

Some(x) == <<x>>

\* Python's truth value of an optional int: None and 0 are false
Truthy(o) == o # None /\ o[1] # 0

PyInt(n) == [k |-> "int", n |-> n, d |-> 1, s |-> <<>>]

PyFloat(n, d) == [k |-> "float", n |-> n, d |-> d, s |-> <<>>]

PyStr(s) == [k |-> "str", n |-> 0, d |-> 1, s |-> s]

IsNum(v) == v.k \in {"int", "float"}

Abs(n) == IF n < 0 THEN -n ELSE n

RECURSIVE Gcd(_, _)
Gcd(a, b) == IF b = 0 THEN a ELSE Gcd(b, a % b)

\* the number n/d (d # 0) in lowest terms with a positive denominator;
\* kind is "int" only when both operands were ints and the result is one
Num(kind, n, d) ==
    LET sn == IF d < 0 THEN -n ELSE n
        sd == Abs(d)
        g  == Gcd(Abs(sn), sd)
    IN  [k |-> kind, n |-> sn \div g, d |-> sd \div g, s |-> <<>>]

\* the kind of the result of int/float arithmetic
Wider(a, b) == IF a.k = "float" \/ b.k = "float" THEN "float" ELSE "int"

RECURSIVE IPow(_, _)
IPow(b, e) == IF e = 0 THEN 1 ELSE b * IPow(b, e - 1)

RECURSIVE Repeat(_, _)
Repeat(s, n) == IF n <= 0 THEN <<>> ELSE s \o Repeat(s, n - 1)

\* the outcome of evaluating a Python expression: a value, or an exception
Ok(v) == [ok |-> TRUE, v |-> v, exc |-> "-"]

Raise(e) == [ok |-> FALSE, v |-> PyInt(0), exc |-> e]

\* floor(a / b) for numbers a, b with b # 0
FloorQuot(a, b) ==
    LET q == Num("int", a.n * b.d, a.d * b.n)
    IN  q.n \div q.d

-----------------------------------------------------------------------------
(* The operator vocabulary: functions of Python's operator module.  "abs"  *)
(* stands for any other picklable callable, which past() does not accept.  *)

AssignOps == {"setitem"}

RemoveOps == {"delitem"}

BinaryOps == {"add", "concat", "floordiv", "mod", "mul", "pow", "sub", "truediv"}

UnaryOps == {"neg", "not_"}

ClosedOps == AssignOps \cup RemoveOps \cup BinaryOps \cup UnaryOps

AllOps == ClosedOps \cup {"abs"}

\* op(a, b) for a binary function of the operator module
BinaryOp(op, a, b) ==
    CASE op = "add" ->
            IF IsNum(a) /\ IsNum(b)
            THEN Ok(Num(Wider(a, b), a.n * b.d + b.n * a.d, a.d * b.d))
            ELSE IF a.k = "str" /\ b.k = "str" THEN Ok(PyStr(a.s \o b.s))
            ELSE Raise("TypeError")
      [] op = "sub" ->
            IF IsNum(a) /\ IsNum(b)
            THEN Ok(Num(Wider(a, b), a.n * b.d - b.n * a.d, a.d * b.d))
            ELSE Raise("TypeError")
      [] op = "mul" ->
            IF IsNum(a) /\ IsNum(b)
            THEN Ok(Num(Wider(a, b), a.n * b.n, a.d * b.d))
            ELSE IF a.k = "str" /\ b.k = "int" THEN Ok(PyStr(Repeat(a.s, b.n)))
            ELSE IF a.k = "int" /\ b.k = "str" THEN Ok(PyStr(Repeat(b.s, a.n)))
            ELSE Raise("TypeError")
      [] op = "truediv" ->
            IF ~(IsNum(a) /\ IsNum(b)) THEN Raise("TypeError")
            ELSE IF b.n = 0 THEN Raise("ZeroDivisionError")
            ELSE Ok(Num("float", a.n * b.d, a.d * b.n))
      [] op = "floordiv" ->
            IF ~(IsNum(a) /\ IsNum(b)) THEN Raise("TypeError")
            ELSE IF b.n = 0 THEN Raise("ZeroDivisionError")
            ELSE Ok(Num(Wider(a, b), FloorQuot(a, b), 1))
      [] op = "mod" ->
            IF ~(IsNum(a) /\ IsNum(b)) THEN Raise("TypeError")
            ELSE IF b.n = 0 THEN Raise("ZeroDivisionError")
            ELSE LET q == FloorQuot(a, b)
                 IN  Ok(Num(Wider(a, b), a.n * b.d - q * b.n * a.d, a.d * b.d))
      [] op = "pow" ->
            \* the exponent is an int in every run of the model
            IF ~(IsNum(a) /\ b.k = "int") THEN Raise("TypeError")
            ELSE IF b.n >= 0
                 THEN Ok(Num(a.k, IPow(a.n, b.n), IPow(a.d, b.n)))
            ELSE IF a.n = 0 THEN Raise("ZeroDivisionError")
            ELSE Ok(Num("float", IPow(a.d, -b.n), IPow(a.n, -b.n)))
      [] op = "concat" ->
            IF a.k = "str" /\ b.k = "str" THEN Ok(PyStr(a.s \o b.s))
            ELSE Raise("TypeError")

\* op(a) for a unary function of the operator module
UnaryOp(op, a) ==
    CASE op = "neg" ->
            IF IsNum(a) THEN Ok(Num(a.k, -a.n, a.d)) ELSE Raise("TypeError")
      [] op = "not_" ->
            IF IsNum(a) THEN Ok(PyInt(IF a.n = 0 THEN 1 ELSE 0))
            ELSE Ok(PyInt(IF a.s = <<>> THEN 1 ELSE 0))

-----------------------------------------------------------------------------
(* Namespace codec and value envelope *)

\* Store.__init__: '__' + ns.replace('.', '__'), for the namespace 'default'
\* of read_store and write_store and the namespace 'default.sub' of
\* other_store
Namespace ==
    IF open = "other_store" THEN <<"", "default", "sub">> ELSE <<"", "default">>

\* f'{self._namespace}__{key}'
ns_key(key) == Namespace \o key

\* ns_key.rsplit('__', maxsplit=1): the key, or AssertionError
un_ns_key(nsKey) ==
    IF Len(nsKey) >= 2 /\ SubSeq(nsKey, 1, Len(nsKey) - 1) = Namespace
    THEN Ok(<<nsKey[Len(nsKey)]>>)
    ELSE Raise("AssertionError")

\* a tuple and a list of ints
PyTuple(items) == [k |-> "tuple", n |-> 0, d |-> 1, s |-> items]

PyList(items) == [k |-> "list", n |-> 0, d |-> 1, s |-> items]

\* the class of the store in use: JsonStore overrides _dump and _load
StoreClass == IF open = "json_store" THEN "JsonStore" ELSE "Store"

\* Store._key of the store in use: encrypted_store is Store(dsn, key=key)
StoreKey == IF open = "encrypted_store" THEN Some("key") ELSE None

\* pickle.dumps(value, protocol=4)
pickle_dumps(value) == <<"pickle4", value>>

\* pickle.loads(data)
pickle_loads(data) == data[2]

\* json.dumps(value): a tuple is written as an array, as a list is
json_dumps(value) ==
    <<"json", IF value.k = "tuple" THEN PyList(value.s) ELSE value>>

\* json.loads(data)
json_loads(data) == data[2]

\* Store._dump, JsonStore._dump
dump(value) ==
    IF StoreClass = "JsonStore" THEN json_dumps(value) ELSE pickle_dumps(value)

\* Store._load, JsonStore._load
load(data) ==
    IF StoreClass = "JsonStore" THEN json_loads(data) ELSE pickle_loads(data)

\* Fernet(key).encrypt(data)
fernet_encrypt(key, data) == <<"fernet", key, data>>

\* Fernet(key).decrypt(token): the data, or InvalidToken
fernet_decrypt(key, token) ==
    IF token[1] = "fernet" /\ token[2] = key THEN Ok(token[3])
    ELSE Raise("InvalidToken")

\* a _value_to_store that never encrypts
to_store_plain(value, encrypt) == dump(value)

\* Store._value_to_store(value, encrypt)
to_store(value, encrypt) ==
    IF StoreKey = None \/ encrypt = FALSE THEN dump(value)
    ELSE fernet_encrypt(StoreKey[1], dump(value))

\* Store._value_from_store(data, decrypt): the value, or the error of
\* Fernet.decrypt or of _load for bytes the serializer did not write
from_store(data, decrypt) ==
    LET plain == IF StoreKey = None \/ decrypt = FALSE THEN Ok(data)
                 ELSE fernet_decrypt(StoreKey[1], data)
    IN  IF ~plain.ok THEN plain
        ELSE IF StoreClass = "JsonStore"
        THEN IF plain.v[1] = "json" THEN Ok(load(plain.v))
             ELSE Raise("JSONDecodeError")
        ELSE IF plain.v[1] = "pickle4" THEN Ok(load(plain.v))
             ELSE Raise("UnpicklingError")

\* Store._value_to_store(value)
value_to_store(value) == to_store(value, TRUE)

\* Store._value_from_store(data) of data the store has written
value_from_store(data) == from_store(data, TRUE).v

-----------------------------------------------------------------------------
(* Backend adapters, event sequences.  A row of table _es is               *)
(* [key, ts, item, op, value, rid]; rid is the uuid of the Redis hash that *)
(* holds the row and is 0 on the SQL backends, whose primary key is        *)
(* (key, ts, item, op).                                                    *)

Backends == {"sqlite", "psql", "redis"}

\* the timestamps of a set of rows in ascending order (ORDER BY _timestamp ASC,
\* ZRANGEBYSCORE)
RECURSIVE Ascending(_)
Ascending(T) ==
    IF T = {} THEN <<>>
    ELSE LET m == CHOOSE x \in T : \A y \in T : x <= y
         IN  <<m>> \o Ascending(T \ {m})

\* the WHERE clause of SqliteStore.es_events and PsqlStore.es_events
SqlEventRows(table, nsKey, start, end, raw_ops) ==
    {r \in table :
        /\ r.key = nsKey
        /\ (start # None => r.ts >= start[1])
        /\ (end # None => r.ts <= end[1])
        /\ (raw_ops # {} => r.op \in raw_ops)}

\* RedisStore.es_events: min=start or '-inf', max=end or '+inf'
RedisEventRows(table, nsKey, start, end, raw_ops) ==
    {r \in table :
        /\ r.key = nsKey
        /\ (Truthy(start) => r.ts >= start[1])
        /\ (Truthy(end) => r.ts <= end[1])
        /\ (raw_ops # {} => r.op \in raw_ops)}

\* the rows es_events of the backend selects
EventRows(table, nsKey, start, end, raw_ops) ==
    IF backend = "redis"
    THEN RedisEventRows(table, nsKey, start, end, raw_ops)
    ELSE SqlEventRows(table, nsKey, start, end, raw_ops)

\* es_events: [(timestamp, {item: (raw_op, raw_value)})] by ascending timestamp.
\* raw_ops is the set of the list's elements, {} for None and for [].
es_events(table, nsKey, start, end, raw_ops) ==
    LET rows == EventRows(table, nsKey, start, end, raw_ops)
        ts   == Ascending({r.ts : r \in rows})
        rstate(t) ==
            [i \in {r.item : r \in {x \in rows : x.ts = t}} |->
                LET r == CHOOSE x \in rows : x.ts = t /\ x.item = i
                IN  <<r.op, r.value>>]
    IN  [n \in 1..Len(ts) |-> <<ts[n], rstate(ts[n])>>]

\* an existence check that compares the timestamp with > instead of =
es_exists_newer(table, nsKey, timestamp) ==
    \E r \in table : r.key = nsKey /\ r.ts > timestamp

\* the existence check of es_apply: SELECT COUNT(*) ... WHERE _key=? AND
\* _timestamp=? / ZRANGEBYSCORE min=timestamp max=timestamp
es_exists(table, nsKey, timestamp) ==
    \E r \in table : r.key = nsKey /\ r.ts = timestamp

\* the rows es_apply inserts for raw_state {item: (raw_op, raw_value)}
es_rows(nsKey, timestamp, raw_state, rid) ==
    {[key |-> nsKey, ts |-> timestamp, item |-> i, op |-> raw_state[i][1],
      value |-> raw_state[i][2], rid |-> rid] : i \in DOMAIN raw_state}

\* es_apply run alone: the table afterwards, or KeyError(timestamp)
es_apply(table, nsKey, timestamp, raw_state) ==
    IF es_exists(table, nsKey, timestamp)
    THEN Raise("KeyError")
    ELSE Ok(table \cup es_rows(nsKey, timestamp, raw_state, 0))

\* es_delete: delete the rows matching some (timestamp, item, raw_op) of
\* raw_events
es_delete(table, nsKey, raw_events) ==
    {r \in table : ~(r.key = nsKey /\ <<r.ts, r.item, r.op>> \in raw_events)}

\* es_keys: SELECT DISTINCT _key ... LIKE '<namespace>__%' / KEYS es<namespace>__*
es_keys(table) ==
    {r.key : r \in {x \in table :
        Len(x.key) > Len(Namespace)
        /\ SubSeq(x.key, 1, Len(Namespace)) = Namespace}}

-----------------------------------------------------------------------------
(* class Store, event sequences *)

\* a reconstructed state {item: value}
EmptyState == [i \in {} |-> PyInt(0)]

\* what a call on a Store does: it returns None, returns a value, or raises
\* one of the exceptions of exc
RetNone == [st |-> "return", none |-> TRUE, v |-> EmptyState, exc |-> {}]

Ret(v) == [st |-> "return", none |-> FALSE, v |-> v, exc |-> {}]

Raises(E) == [st |-> "raise", none |-> FALSE, v |-> EmptyState, exc |-> E]

\* Store.eventsequences
eventsequences(table) ==
    LET ks == es_keys(table)
    IN  IF \E k \in ks : ~un_ns_key(k).ok
        THEN Raises({"AssertionError"})
        ELSE Ret({un_ns_key(k).v : k \in ks})

\* Store.events; ops is the set of operators asked for, {} for None
events(table, key, start, end, ops) ==
    LET probe == un_ns_key(ns_key(key))
        seqs  == eventsequences(table)
    IN  IF ~probe.ok \/ seqs.st = "raise" THEN Raises({"AssertionError"})
        ELSE IF probe.v \notin seqs.v THEN RetNone
        ELSE LET raw == es_events(table, ns_key(key), start, end,
                                  {pickle_dumps(o) : o \in ops})
             IN  Ret([n \in 1..Len(raw) |->
                        <<raw[n][1],
                          [i \in DOMAIN raw[n][2] |->
                              <<pickle_loads(raw[n][2][i][1]),
                                value_from_store(raw[n][2][i][2])>>]>>])

\* one iteration of the inner loop of Store.past: what (op, value) does to
\* state[item]; del says that the item is removed
ItemEffect(state, item, op, value) ==
    IF op \in AssignOps THEN [ok |-> TRUE, del |-> FALSE, v |-> value, exc |-> "-"]
    ELSE IF op \in RemoveOps
    THEN IF item \in DOMAIN state
         THEN [ok |-> TRUE, del |-> TRUE, v |-> PyInt(0), exc |-> "-"]
         ELSE [ok |-> FALSE, del |-> FALSE, v |-> PyInt(0), exc |-> "KeyError"]
    ELSE IF op \in BinaryOps
    THEN IF item \in DOMAIN state
         THEN LET r == BinaryOp(op, state[item], value)
              IN  [ok |-> r.ok, del |-> FALSE, v |-> r.v, exc |-> r.exc]
         ELSE [ok |-> FALSE, del |-> FALSE, v |-> PyInt(0), exc |-> "KeyError"]
    ELSE IF op \in UnaryOps
    THEN IF item \in DOMAIN state
         THEN LET r == UnaryOp(op, state[item])
              IN  [ok |-> r.ok, del |-> FALSE, v |-> r.v, exc |-> r.exc]
         ELSE [ok |-> FALSE, del |-> FALSE, v |-> PyInt(0), exc |-> "KeyError"]
    ELSE [ok |-> FALSE, del |-> FALSE, v |-> PyInt(0), exc |-> "AssertionError"]

\* the body of the outer loop of Store.past for one event s_change: the new
\* state, or the exceptions that the items of the event can raise (the items
\* of one event touch different entries; which failing one comes first is the
\* backend's row order)
EventEffect(state, s_change) ==
    LET eff(i) == ItemEffect(state, i, s_change[i][1], s_change[i][2])
        bad    == {i \in DOMAIN s_change : ~eff(i).ok}
        gone   == {i \in DOMAIN s_change : eff(i).del}
    IN  IF bad # {}
        THEN Raises({eff(i).exc : i \in bad})
        ELSE Ret([i \in (DOMAIN state \cup DOMAIN s_change) \ gone |->
                    IF i \in DOMAIN s_change THEN eff(i).v ELSE state[i]])

\* the loop of Store.past over events[n..]
RECURSIVE Replay(_, _, _)
Replay(state, evs, n) ==
    IF n > Len(evs) THEN Ret(state)
    ELSE LET r == EventEffect(state, evs[n][2])
         IN  IF r.st = "raise" THEN r ELSE Replay(r.v, evs, n + 1)

\* Store.past(key, t), t an optional timestamp
past(table, key, t) ==
    LET evs == events(table, key, None, t, {})
    IN  IF evs.st = "raise" THEN evs
        ELSE IF evs.none \/ evs.v = <<>> THEN RetNone
        ELSE Replay(EmptyState, evs.v, 1)

\* Store.current(key)
current(table, key) == past(table, key, None)

\* an entry of the argument of apply is a bare value <<v>> or a pair <<op, v>>
Normalize(ov) == IF Len(ov) = 1 THEN <<"setitem", ov[1]>> ELSE ov

\* the loop of Store.apply that builds raw_state {item: (raw_op, raw_value)}
RawState(state) ==
    [i \in DOMAIN state |->
        <<pickle_dumps(Normalize(state[i])[1]), value_to_store(Normalize(state[i])[2])>>]

\* Store.apply(key, state, t) at wall-clock time clock: the table afterwards
\* and the outcome of the call
apply(table, clock, key, state, t) ==
    LET timestamp == IF Truthy(t) THEN t[1] ELSE clock
        r         == es_apply(table, ns_key(key), timestamp, RawState(state))
    IN  IF ~r.ok
        THEN [table |-> table, ret |-> Raises({"StoreIntegrityError"})]
        ELSE [table |-> r.v, ret |-> current(r.v, key)]

\* a prune that removes a sequence only when its state is None, not when it
\* is the empty mapping
RECURSIVE prune_none_only(_, _, _, _)
prune_none_only(table, keys, n, remove) ==
    IF n > Len(keys) THEN [table |-> table, ret |-> RetNone]
    ELSE LET cur == current(table, keys[n])
         IN  IF cur.st = "raise" THEN [table |-> table, ret |-> cur]
             ELSE IF cur.none /\ remove
             THEN prune_none_only(
                      es_delete(table, ns_key(keys[n]),
                                {<<r.ts, r.item, r.op>> :
                                    r \in {x \in table : x.key = ns_key(keys[n])}}),
                      keys, n + 1, remove)
             ELSE prune_none_only(table, keys, n + 1, remove)

\* a prune that removes a sequence whatever its current state is
RECURSIVE prune_any_state(_, _, _, _)
prune_any_state(table, keys, n, remove) ==
    IF n > Len(keys) THEN [table |-> table, ret |-> RetNone]
    ELSE LET cur == current(table, keys[n])
         IN  IF cur.st = "raise" THEN [table |-> table, ret |-> cur]
             ELSE IF remove
             THEN prune_any_state(
                      es_delete(table, ns_key(keys[n]),
                                {<<r.ts, r.item, r.op>> :
                                    r \in {x \in table : x.key = ns_key(keys[n])}}),
                      keys, n + 1, remove)
             ELSE prune_any_state(table, keys, n + 1, remove)

\* Store.prune(*keys, remove): the loop over keys[n..]
RECURSIVE prune(_, _, _, _)
prune(table, keys, n, remove) ==
    IF n > Len(keys) THEN [table |-> table, ret |-> RetNone]
    ELSE LET cur == current(table, keys[n])
         IN  IF cur.st = "raise" THEN [table |-> table, ret |-> cur]
             ELSE IF (cur.none \/ cur.v = EmptyState) /\ remove
             THEN LET raw == es_events(table, ns_key(keys[n]), None, None, {})
                      del_events ==
                          UNION {{<<raw[e][1], i, raw[e][2][i][1]>> :
                                    i \in DOMAIN raw[e][2]} : e \in DOMAIN raw}
                  IN  prune(es_delete(table, ns_key(keys[n]), del_events),
                            keys, n + 1, remove)
             ELSE prune(table, keys, n + 1, remove)

-----------------------------------------------------------------------------
(* Backend adapters, key/value pairs and time series.  A row of table _kv  *)
(* is [key, value] with primary key (key); a row of table _ts is           *)
(* [key, ts, value] with primary key (key, ts) on the SQL backends and a   *)
(* member of the sorted set of the key on Redis.                           *)

\* kv_set: INSERT OR REPLACE / INSERT, else UPDATE / SET
kv_set(table, nsKey, raw_value) ==
    {r \in table : r.key # nsKey} \cup {[key |-> nsKey, value |-> raw_value]}

\* kv_delete(*ns_keys)
kv_delete(table, nsKeys) == {r \in table : r.key \notin nsKeys}

\* kv_get: the raw value of the key, None if the key is not stored
kv_get(table, nsKey) ==
    IF \E r \in table : r.key = nsKey
    THEN Some((CHOOSE r \in table : r.key = nsKey).value)
    ELSE None

\* kv_keys: SELECT _key ... LIKE '<namespace>__%' / KEYS kv<namespace>__*,
\* the rows selected, one list entry each
kv_keys(table) ==
    {x \in table : Len(x.key) > Len(Namespace)
                   /\ SubSeq(x.key, 1, Len(Namespace)) = Namespace}

\* SqliteStore.ts_extend: INSERT OR REPLACE of raw_data_points[n..]
RECURSIVE sqlite_ts_extend(_, _, _, _)
sqlite_ts_extend(table, nsKey, pts, n) ==
    IF n > Len(pts) THEN table
    ELSE sqlite_ts_extend(
            {r \in table : ~(r.key = nsKey /\ r.ts = pts[n][1])}
                \cup {[key |-> nsKey, ts |-> pts[n][1], value |-> pts[n][2]]},
            nsKey, pts, n + 1)

\* PsqlStore.ts_extend for raw_data_points[n..]: INSERT into the open
\* transaction work; on IntegrityError roll back to the committed table and
\* UPDATE the row there.  The commit at the end makes work the table.
RECURSIVE psql_ts_extend(_, _, _, _, _)
psql_ts_extend(committed, work, nsKey, pts, n) ==
    IF n > Len(pts) THEN work
    ELSE IF \E r \in work : r.key = nsKey /\ r.ts = pts[n][1]
    THEN psql_ts_extend(committed,
            {IF r.key = nsKey /\ r.ts = pts[n][1]
             THEN [r EXCEPT !.value = pts[n][2]] ELSE r : r \in committed},
            nsKey, pts, n + 1)
    ELSE psql_ts_extend(committed,
            work \cup {[key |-> nsKey, ts |-> pts[n][1], value |-> pts[n][2]]},
            nsKey, pts, n + 1)

\* RedisStore.ts_extend: ZADD of the member f'{ts:010}' + raw value with
\* score ts; another value at a stored timestamp is another member
redis_ts_extend(table, nsKey, pts) ==
    table \cup {[key |-> nsKey, ts |-> pts[n][1], value |-> pts[n][2]] :
                    n \in DOMAIN pts}

ts_extend(table, nsKey, pts) ==
    CASE backend = "sqlite" -> sqlite_ts_extend(table, nsKey, pts, 1)
      [] backend = "psql" -> psql_ts_extend(table, table, nsKey, pts, 1)
      [] backend = "redis" -> redis_ts_extend(table, nsKey, pts)

\* ts_delete: the points of the key between start and end are deleted
ts_delete(table, nsKey, start, end) ==
    {r \in table : ~(r.key = nsKey /\ r.ts >= start /\ r.ts <= end)}

\* ts_first: MIN(_timestamp) / ZRANGE 0 0, None if the key has no point
ts_first(table, nsKey) ==
    LET T == {r.ts : r \in {x \in table : x.key = nsKey}}
    IN  IF T = {} THEN None ELSE Some(CHOOSE x \in T : \A y \in T : x <= y)

\* ts_last: MAX(_timestamp) / ZRANGE -1 -1, None if the key has no point
ts_last(table, nsKey) ==
    LET T == {r.ts : r \in {x \in table : x.key = nsKey}}
    IN  IF T = {} THEN None ELSE Some(CHOOSE x \in T : \A y \in T : x >= y)

\* f'{ts:010}' has ten characters, which ts_range of RedisStore strips; the
\* timestamps of the model stay below the ten digits that make it longer
TenChars(t) == t > -1000000000

\* the order of the bytes of two raw values: pickle.dumps(i, protocol=4) of
\* the ints 0..255 is b'\x80\x04K' + bytes([i]) + b'.'
BytesLeq(a, b) == a[2].n <= b[2].n

\* the rows of a set in the order the backend returns them: by timestamp;
\* members of a Redis sorted set with equal scores come in the order of
\* their bytes
RECURSIVE RowSeq(_)
RowSeq(rows) ==
    IF rows = {} THEN <<>>
    ELSE LET r == CHOOSE x \in rows :
                      \A y \in rows :
                          \/ x.ts < y.ts
                          \/ x.ts = y.ts /\ BytesLeq(x.value, y.value)
         IN  <<r>> \o RowSeq(rows \ {r})

\* ts_range: [(timestamp, raw value)] between start and end
ts_range(table, nsKey, start, end) ==
    LET rows == RowSeq({r \in table : r.key = nsKey /\ r.ts >= start /\ r.ts <= end})
    IN  [n \in DOMAIN rows |->
            <<rows[n].ts,
              IF backend = "redis" /\ ~TenChars(rows[n].ts)
              THEN <<"garbled", rows[n].value>>
              ELSE rows[n].value>>]

\* ts_keys: SELECT DISTINCT _key ... LIKE '<namespace>__%' / KEYS ts<namespace>__*
ts_keys(table) ==
    {r.key : r \in {x \in table :
        Len(x.key) > Len(Namespace)
        /\ SubSeq(x.key, 1, Len(Namespace)) = Namespace}}

-----------------------------------------------------------------------------
(* class Store, key/value pairs and time series *)

\* Store.get(key, default): a value
get(table, key, default) ==
    LET raw_value == kv_get(table, ns_key(key))
    IN  IF raw_value = None THEN default ELSE value_from_store(raw_value[1])

\* Store.keys: the list of the keys as a set (no key is listed twice, the
\* order is the backend's), or the AssertionError of _un_ns_key
store_keys(table) ==
    LET ks == {r.key : r \in kv_keys(table)}
    IN  IF \E k \in ks : ~un_ns_key(k).ok
        THEN Raises({"AssertionError"})
        ELSE Ret({un_ns_key(k).v : k \in ks})

\* Store.has(key)
has(table, key) ==
    LET probe == un_ns_key(ns_key(key))
        ks    == store_keys(table)
    IN  IF ~probe.ok \/ ks.st = "raise" THEN Raises({"AssertionError"})
        ELSE Ret(probe.v \in ks.v)

\* Store.__len__
len(table) ==
    LET ks == store_keys(table)
    IN  IF ks.st = "raise" THEN ks ELSE Ret(Cardinality(kv_keys(table)))

\* the characters of the str a key segment stands for
Characters ==
    [name \in {"a", "ab", "a.b", "axb"} |->
        CASE name = "a"   -> <<"a">>
          [] name = "ab"  -> <<"a", "b">>
          [] name = "a.b" -> <<"a", ".", "b">>
          [] name = "axb" -> <<"a", "x", "b">>]

\* str.replace(old, new) for a one-character old, over chars[n..]
RECURSIVE str_replace(_, _, _, _)
str_replace(chars, n, old, new) ==
    IF n > Len(chars) THEN <<>>
    ELSE (IF chars[n] = old THEN new ELSE <<chars[n]>>)
         \o str_replace(chars, n + 1, old, new)

\* re: the parse of a pattern from its character i on, after the tokens toks.
\* A token is an atom (any character, or the character c) with a quantifier
\* q; '\' makes the next character a literal, '.' is any character, '*' and
\* '?' quantify the atom before them, '?' after a quantifier makes it lazy.
RECURSIVE re_compile(_, _, _)
re_compile(rx, i, toks) ==
    IF i > Len(rx) THEN Ok(toks)
    ELSE IF rx[i] = "\\"
    THEN IF i = Len(rx) THEN Raise("re.error")
         ELSE re_compile(rx, i + 2,
                  Append(toks, [any |-> FALSE, c |-> rx[i + 1], q |-> "one",
                                lazy |-> FALSE]))
    ELSE IF rx[i] = "."
    THEN re_compile(rx, i + 1,
             Append(toks, [any |-> TRUE, c |-> ".", q |-> "one",
                           lazy |-> FALSE]))
    ELSE IF rx[i] \in {"*", "?"}
    THEN IF toks = <<>> THEN Raise("re.error")  \* nothing to repeat
         ELSE LET t == toks[Len(toks)]
                  front == SubSeq(toks, 1, Len(toks) - 1)
              IN  IF t.q = "one"
                  THEN re_compile(rx, i + 1,
                           Append(front,
                               [t EXCEPT !.q = IF rx[i] = "*" THEN "star"
                                               ELSE "opt"]))
                  ELSE IF rx[i] = "?" /\ ~t.lazy
                  THEN re_compile(rx, i + 1,
                           Append(front, [t EXCEPT !.lazy = TRUE]))
                  ELSE Raise("re.error")        \* multiple repeat
    ELSE re_compile(rx, i + 1,
             Append(toks, [any |-> FALSE, c |-> rx[i], q |-> "one",
                           lazy |-> FALSE]))

\* re.match: whether the tokens from i on match at character j of chars; the
\* match is anchored at the start of the string only
RECURSIVE re_match(_, _, _, _)
re_match(toks, i, chars, j) ==
    IF i > Len(toks) THEN TRUE
    ELSE LET t    == toks[i]
             here == j <= Len(chars) /\ (t.any \/ chars[j] = t.c)
         IN  CASE t.q = "one"  -> here /\ re_match(toks, i + 1, chars, j + 1)
               [] t.q = "opt"  -> \/ re_match(toks, i + 1, chars, j)
                                  \/ here /\ re_match(toks, i + 1, chars, j + 1)
               [] t.q = "star" -> \/ re_match(toks, i + 1, chars, j)
                                  \/ here /\ re_match(toks, i, chars, j + 1)

\* Store.find(*pattern): pattern is None for find() and the characters of
\* the pattern otherwise; the result is the set of the pairs of the list
find(table, pattern) ==
    LET ks == store_keys(table)
    IN  IF ks.st = "raise" THEN ks
        ELSE IF pattern = None
        THEN Ret({<<k, get(table, k, None)>> : k \in ks.v})
        ELSE LET rx == re_compile(
                           str_replace(
                               str_replace(pattern[1], 1, ".", <<"\\", ".">>),
                               1, "*", <<".", "*">>),
                           1, <<>>)
             IN  IF ks.v = {} THEN Ret({})
                 ELSE IF ~rx.ok THEN Raises({"re.error"})
                 ELSE Ret({<<k, get(table, k, None)>> :
                             k \in {x \in ks.v :
                                      re_match(rx.v, 1, Characters[x[1]], 1)}})

\* Store.timeseries: as Store.keys
timeseries(table) ==
    LET ks == ts_keys(table)
    IN  IF \E k \in ks : ~un_ns_key(k).ok
        THEN Raises({"AssertionError"})
        ELSE Ret({un_ns_key(k).v : k \in ks})

\* Store._freq, the default frequency of the class
default_freq == None

\* the filter loop of Store.range over raw_range[i..]
RECURSIVE RangeLoop(_, _, _, _, _, _)
RangeLoop(raw, i, step, found, n, freq) ==
    IF i > Len(raw) THEN found
    ELSE IF raw[i][1] >= step
    THEN LET f == Append(found, <<raw[i][1], value_from_store(raw[i][2])>>)
         IN  IF n # None /\ Len(f) = n[1] THEN f
             ELSE RangeLoop(raw, i + 1,
                            IF freq # None THEN raw[i][1] + freq[1] ELSE step,
                            f, n, freq)
    ELSE RangeLoop(raw, i + 1, step, found, n, freq)

\* Store.range with start and end given
range_between(table, key, start, end, n, freq) ==
    IF end < start THEN <<>>
    ELSE RangeLoop(ts_range(table, ns_key(key), start, end), 1, 0, <<>>, n,
                   IF Truthy(freq) THEN freq ELSE default_freq)

\* Store.first: (timestamp, value) of the oldest point, None, or IndexError
first(table, key) ==
    LET t_min == ts_first(table, ns_key(key))
    IN  IF t_min = None THEN RetNone
        ELSE LET r == range_between(table, key, t_min[1], t_min[1], None, None)
             IN  IF r = <<>> THEN Raises({"IndexError"}) ELSE Ret(r[1])

\* Store.last: (timestamp, value) of the most recent point, None, or IndexError
last_point(table, key) ==
    LET t_max == ts_last(table, ns_key(key))
    IN  IF t_max = None THEN RetNone
        ELSE LET r == range_between(table, key, t_max[1], t_max[1], None, None)
             IN  IF r = <<>> THEN Raises({"IndexError"}) ELSE Ret(r[1])

\* Store.range(key, start, n=n, end=end, freq=freq): the list, or the
\* IndexError of first or last
range(table, key, start, end, n, freq) ==
    LET f == IF start = None THEN first(table, key) ELSE RetNone
        l == IF end = None THEN last_point(table, key) ELSE RetNone
    IN  IF start = None /\ f.st = "raise" THEN f
        ELSE IF start = None /\ f.none THEN Ret(<<>>)
        ELSE IF end = None /\ l.st = "raise" THEN l
        ELSE IF end = None /\ l.none THEN Ret(<<>>)
        ELSE Ret(range_between(table, key,
                               IF start = None THEN f.v[1] ELSE start[1],
                               IF end = None THEN l.v[1] ELSE end[1],
                               n, freq))

\* Python's range(a, stop, step) as a list
RECURSIVE py_range(_, _, _)
py_range(a, stop, step) ==
    IF (step > 0 /\ a >= stop) \/ (step < 0 /\ a <= stop) THEN <<>>
    ELSE <<a>> \o py_range(a + step, stop, step)

\* Store.missing(key, start, end, freq)
missing(table, key, start, end, freq) ==
    LET end2  == IF Truthy(end) THEN end[1] ELSE start
        freq2 == IF Truthy(freq) THEN freq ELSE default_freq
    IN  IF freq2 = None THEN Raises({"AssertionError"})
        ELSE LET r == range(table, key, Some(start), Some(end2), None, freq2)
             IN  IF r.st = "raise" THEN r
                 ELSE LET timestamps == {r.v[i][1] : i \in DOMAIN r.v}
                      IN  Ret(SelectSeq(py_range(start, end2 + freq2[1], freq2[1]),
                                        LAMBDA ts : ts \notin timestamps))

\* an iscomplete that reports a window complete although points are missing
iscomplete_always(table, key, start, end, freq) ==
    LET m == missing(table, key, start, end,
                     IF Truthy(freq) THEN freq ELSE default_freq)
    IN  IF m.st = "raise" THEN m ELSE Ret(TRUE)

\* Store.iscomplete(key, start, end, freq)
iscomplete(table, key, start, end, freq) ==
    LET m == missing(table, key, start, end,
                     IF Truthy(freq) THEN freq ELSE default_freq)
    IN  IF m.st = "raise" THEN m ELSE Ret(m.v = <<>>)

\* a set that does not look at the frozen flag
set_unguarded(frozen, table, key, value) ==
    [table |-> kv_set(table, ns_key(key), value_to_store(value)),
     ret |-> RetNone]

\* Store.set
set(frozen, table, key, value) ==
    IF frozen THEN [table |-> table, ret |-> Raises({"FrozenStoreError"})]
    ELSE [table |-> kv_set(table, ns_key(key), value_to_store(value)),
          ret |-> RetNone]

\* Store.delete(*keys)
delete(frozen, table, keys) ==
    IF frozen THEN [table |-> table, ret |-> Raises({"FrozenStoreError"})]
    ELSE [table |-> IF Len(keys) # 0
                    THEN kv_delete(table, {ns_key(keys[n]) : n \in DOMAIN keys})
                    ELSE table,
          ret |-> RetNone]

\* Store.extend(key, *data_points)
extend(frozen, table, key, data_points) ==
    IF frozen THEN [table |-> table, ret |-> Raises({"FrozenStoreError"})]
    ELSE [table |-> ts_extend(table, ns_key(key),
                        [n \in DOMAIN data_points |->
                            <<data_points[n][1], value_to_store(data_points[n][2])>>]),
          ret |-> RetNone]

\* the loop of Store.remove over keys[n..]
RECURSIVE remove_loop(_, _, _, _, _)
remove_loop(table, keys, n, start, end) ==
    IF n > Len(keys) THEN [table |-> table, ret |-> RetNone]
    ELSE LET f == IF start = None THEN first(table, keys[n]) ELSE RetNone
             l == IF end = None THEN last_point(table, keys[n]) ELSE RetNone
         IN  IF start = None /\ f.st = "raise" THEN [table |-> table, ret |-> f]
             ELSE IF start = None /\ f.none
             THEN remove_loop(table, keys, n + 1, start, end)
             ELSE IF end = None /\ l.st = "raise" THEN [table |-> table, ret |-> l]
             ELSE IF end = None /\ l.none
             THEN remove_loop(table, keys, n + 1, start, end)
             ELSE LET kstart == IF start = None THEN f.v[1] ELSE start[1]
                      kend   == IF end = None THEN l.v[1] ELSE end[1]
                  IN  IF kend < kstart
                      THEN remove_loop(table, keys, n + 1, start, end)
                      ELSE remove_loop(
                              ts_delete(table, ns_key(keys[n]), kstart, kend),
                              keys, n + 1, start, end)

\* Store.remove(*keys, start, end)
remove(frozen, table, keys, start, end) ==
    IF frozen THEN [table |-> table, ret |-> Raises({"FrozenStoreError"})]
    ELSE remove_loop(table, keys, 1, start, end)

\* the keys of a table that belong to the namespace of the store
InNamespace(nsKey) ==
    Len(nsKey) > Len(Namespace) /\ SubSeq(nsKey, 1, Len(Namespace)) = Namespace

\* Store.discard: the three tables afterwards, whether the medium still exists,
\* and the outcome.  SqliteStore removes the file once its tables are empty,
\* PsqlStore drops the schema, RedisStore deletes the keys of the namespace.
discard(frozen, kv, ts, es) ==
    IF frozen
    THEN [kv |-> kv, ts |-> ts, es |-> es, medium |-> TRUE,
          ret |-> Raises({"FrozenStoreError"})]
    ELSE LET kv2 == {r \in kv : ~InNamespace(r.key)}
             ts2 == {r \in ts : ~InNamespace(r.key)}
             es2 == {r \in es : ~InNamespace(r.key)}
         IN  [kv |-> kv2, ts |-> ts2, es |-> es2,
              medium |-> CASE backend = "sqlite" -> kv2 \cup ts2 \cup es2 # {}
                           [] backend = "psql" -> FALSE
                           [] backend = "redis" -> TRUE,
              ret |-> RetNone]

-----------------------------------------------------------------------------
(* The calls made on the store.  read_store is Store(dsn), which is frozen, *)
(* and write_store is Store(dsn, frozen=False), as in the tests; one of     *)
(* them at a time is inside its with-block.                                 *)

Stores == {"read_store", "write_store"}

NoStore == "none"

Frozen(s) == s = "read_store"

\* the record of a call: the method, the Store object, the keys, the optional
\* timestamp, the changes passed to apply, the other arguments, and the outcome
Call(op, s, keys, t, state, args, ret) ==
    [op |-> op, store |-> s, keys |-> keys, t |-> t, state |-> state,
     args |-> args, ret |-> ret]

NoCall == Call("-", NoStore, <<>>, None, EmptyState, <<>>, RetNone)

\* two clients, each with a connection of its own to the same database
Writers == {1, 2}

\* a client outside apply: pc is its position in apply and es_apply, state
\* and ts are the arguments of its call, todo the items the loop of es_apply
\* has not reached, rows the rows of its open transaction or pipeline
Idle == [w \in Writers |->
            [pc |-> "idle", key |-> <<>>, ts |-> 0, state |-> EmptyState,
             todo |-> {}, rows |-> {}, ret |-> RetNone]]

\* the tables as a call finds them
Tables == [kv |-> kvTable, ts |-> tsTable, es |-> esTable]

\* the number of events (timestamps with rows) a table holds
NumEvents(table) == Cardinality({<<r.key, r.ts>> : r \in table})

\* the connection enter__ leaves open when it fails on a missing namespace:
\* SqliteStore raises FileNotFoundError before sqlite3.connect, PsqlStore
\* raises it after psycopg2.connect, and __exit__ is not called
FailedEnterConn(s) == IF backend = "psql" THEN {s} ELSE {}

\* exit__: SqliteStore and PsqlStore close self._conn, the body of
\* RedisStore.exit__ is empty and the connection that self._redis.time()
\* opened stays in the pool of the client
ExitConn(s) == IF backend = "redis" THEN conn ELSE conn \ {s}

\* Store.__enter__
Enter(s) ==
    /\ open = NoStore
    /\ IF backend # "redis" /\ Frozen(s) /\ ~medium
       THEN /\ last' = Call("enter", s, <<>>, None, EmptyState, <<>>,
                            Raises({"StoreNotAvailableError"}))
            /\ conn' = conn \cup FailedEnterConn(s)
            /\ UNCHANGED <<open, medium>>
       ELSE /\ open' = s
            /\ medium' = TRUE
            /\ conn' = conn \cup {s}
            /\ last' = Call("enter", s, <<>>, None, EmptyState, <<>>, RetNone)
    /\ pre' = Tables
    /\ UNCHANGED <<backend, kvTable, tsTable, esTable, wr>>

\* Store.__exit__
Exit(s) ==
    /\ open = s
    /\ open' = NoStore
    /\ conn' = ExitConn(s)
    /\ last' = Call("exit", s, <<>>, None, EmptyState, <<>>, RetNone)
    /\ pre' = Tables
    /\ UNCHANGED <<backend, medium, kvTable, tsTable, esTable, wr>>

\* a call of Store.apply(key, state, t); clk is what
\* int(round(time.time() * 1000)) returns if the call reads the wall clock
CallApply(s, key, state, t, clk) ==
    /\ open = s /\ medium
    /\ \E r \in {apply(esTable, clk, key, state, t)} :
           /\ NumEvents(r.table) <= MaxEvents
           /\ esTable' = r.table
           /\ last' = Call("apply", s, <<key>>, t, state,
                           IF Truthy(t) THEN <<>> ELSE <<clk>>, r.ret)
    /\ pre' = Tables
    /\ UNCHANGED <<conn, backend, medium, open, kvTable, tsTable, wr>>

\* a call of Store.prune(*keys, remove=remove)
CallPrune(s, keys, rem) ==
    /\ open = s /\ medium
    /\ \E r \in {prune(esTable, keys, 1, rem)} :
           /\ esTable' = r.table
           /\ last' = Call("prune", s, keys, None, EmptyState, <<rem>>, r.ret)
    /\ pre' = Tables
    /\ UNCHANGED <<conn, backend, medium, open, kvTable, tsTable, wr>>

\* a call of Store.set(key, value)
CallSet(s, key, value) ==
    /\ open = s /\ medium
    /\ \E r \in {set(Frozen(s), kvTable, key, value)} :
           /\ kvTable' = r.table
           /\ last' = Call("set", s, <<key>>, None, EmptyState, <<value>>, r.ret)
    /\ pre' = Tables
    /\ UNCHANGED <<conn, backend, medium, open, tsTable, esTable, wr>>

\* a call of Store.delete(*keys)
CallDelete(s, keys) ==
    /\ open = s /\ medium
    /\ \E r \in {delete(Frozen(s), kvTable, keys)} :
           /\ kvTable' = r.table
           /\ last' = Call("delete", s, keys, None, EmptyState, <<>>, r.ret)
    /\ pre' = Tables
    /\ UNCHANGED <<conn, backend, medium, open, tsTable, esTable, wr>>

\* a call of Store.find(*pattern)
CallFind(s, pattern) ==
    /\ open = s /\ medium
    /\ last' = Call("find", s, <<>>, None, EmptyState, <<pattern>>,
                    find(kvTable, pattern))
    /\ pre' = Tables
    /\ UNCHANGED <<conn, backend, medium, open, kvTable, tsTable, esTable, wr>>

\* a call of Store._value_to_store(value, encrypt)
CallValueToStore(s, value, encrypt) ==
    /\ open = s /\ medium
    /\ last' = Call("_value_to_store", s, <<>>, None, EmptyState,
                    <<value, encrypt>>, Ret(to_store(value, encrypt)))
    /\ pre' = Tables
    /\ UNCHANGED <<conn, backend, medium, open, kvTable, tsTable, esTable, wr>>

\* a call of Store._value_from_store(data, decrypt) with the data the call
\* of _value_to_store before it has returned
CallValueFromStore(s, decrypt) ==
    /\ open = s /\ medium
    /\ last.op = "_value_to_store"
    /\ LET r == from_store(last.ret.v, decrypt)
       IN  last' = Call("_value_from_store", s, <<>>, None, EmptyState,
                        <<last.args[1], last.args[2], decrypt>>,
                        IF r.ok THEN Ret(r.v) ELSE Raises({r.exc}))
    /\ pre' = Tables
    /\ UNCHANGED <<conn, backend, medium, open, kvTable, tsTable, esTable, wr>>

\* a call of Store.extend(key, *data_points)
CallExtend(s, key, data_points) ==
    /\ open = s /\ medium
    /\ \E r \in {extend(Frozen(s), tsTable, key, data_points)} :
           /\ tsTable' = r.table
           /\ last' = Call("extend", s, <<key>>, None, EmptyState, data_points,
                           r.ret)
    /\ pre' = Tables
    /\ UNCHANGED <<conn, backend, medium, open, kvTable, esTable, wr>>

\* a call of Store.remove(*keys, start=start, end=end)
CallRemove(s, keys, start, end) ==
    /\ open = s /\ medium
    /\ \E r \in {remove(Frozen(s), tsTable, keys, start, end)} :
           /\ tsTable' = r.table
           /\ last' = Call("remove", s, keys, None, EmptyState, <<start, end>>,
                           r.ret)
    /\ pre' = Tables
    /\ UNCHANGED <<conn, backend, medium, open, kvTable, esTable, wr>>

\* a call of Store.discard()
CallDiscard(s) ==
    /\ open = s /\ medium
    /\ \E r \in {discard(Frozen(s), kvTable, tsTable, esTable)} :
           /\ kvTable' = r.kv
           /\ tsTable' = r.ts
           /\ esTable' = r.es
           /\ medium' = r.medium
           /\ conn' = IF backend = "sqlite" /\ ~r.medium THEN conn \ {s} ELSE conn
           /\ last' = Call("discard", s, <<>>, None, EmptyState, <<>>, r.ret)
    /\ pre' = Tables
    /\ UNCHANGED <<backend, open, wr>>

-----------------------------------------------------------------------------
(* The event-sequence facet used through write_store *)

Keys == {<<"k1">>, <<"k2">>}

Items == {"a", "b"}

\* the entries of the changes applied to item "a": a bare value, or an
\* (operator, operand) pair; the operand of delitem and of a unary operator
\* is ignored
Updates ==
    {<<PyInt(3)>>, <<"delitem", PyInt(0)>>, <<"add", PyInt(1)>>,
     <<"not_", PyInt(0)>>, <<"abs", PyInt(0)>>}

\* the arguments passed as state to apply for key k1
Changes ==
    {EmptyState}
    \cup {[i \in {"a"} |-> u] : u \in Updates}
    \cup {[i \in Items |-> <<PyInt(1)>>]}

\* the arguments passed as state to apply for the other key
FewChanges == {EmptyState, [i \in {"a"} |-> <<PyInt(1)>>]}

ChangesOf(key) == IF key = <<"k1">> THEN Changes ELSE FewChanges

\* the readings of the wall clock int(round(time.time() * 1000))
Clock == {1, 2}

\* the arguments passed as t to apply and past: None, 0, or a time of Clock
TimeArgs == {None, Some(0)} \cup {Some(t) : t \in Clock}

\* the arguments passed as keys to prune
KeyLists == {<<<<"k1">>>>, <<<<"k2">>, <<"k1">>>>}

InitES ==
    /\ backend \in Backends
    /\ medium = TRUE
    /\ open = "write_store"
    /\ conn = {"write_store"}
    /\ kvTable = {} /\ tsTable = {} /\ esTable = {}
    /\ last = NoCall
    /\ pre = [kv |-> {}, ts |-> {}, es |-> {}]
    /\ wr = Idle

NextES ==
    \/ \E k \in Keys, t \in TimeArgs, clk \in Clock :
          \E c \in ChangesOf(k) :
              /\ (Truthy(t) => clk = 1)
              /\ CallApply("write_store", k, c, t, clk)
    \/ \E ks \in KeyLists, rem \in BOOLEAN : CallPrune("write_store", ks, rem)

SpecES == InitES /\ [][NextES]_vars

-----------------------------------------------------------------------------
(* The whole store: a medium that does not exist yet on the SQL backends,  *)
(* and the two Store objects entering and leaving their with-blocks and    *)
(* calling the writing methods of the three facets.                        *)

\* the values stored under a key and in a data point
Values == {PyInt(1), PyInt(2)}

\* the arguments passed as data_points to extend
PointLists == {<<<<1, v>>>> : v \in Values}

\* the arguments passed as state to apply
StoreChanges ==
    {EmptyState, [i \in {"a"} |-> <<PyInt(1)>>],
     [i \in {"a"} |-> <<"delitem", PyInt(0)>>]}

Init ==
    /\ backend \in Backends
    /\ medium = (backend = "redis")
    /\ open = NoStore
    /\ conn = {}
    /\ kvTable = {} /\ tsTable = {} /\ esTable = {}
    /\ last = NoCall
    /\ pre = [kv |-> {}, ts |-> {}, es |-> {}]
    /\ wr = Idle

Next ==
    \/ \E s \in Stores : Enter(s)
    \/ \E s \in Stores : Exit(s)
    \/ \E s \in Stores, v \in Values : CallSet(s, <<"k1">>, v)
    \/ \E s \in Stores : CallDelete(s, <<<<"k1">>>>)
    \/ \E s \in Stores, pts \in PointLists : CallExtend(s, <<"k1">>, pts)
    \/ \E s \in Stores : CallRemove(s, <<<<"k1">>>>, None, None)
    \/ \E s \in Stores : CallDiscard(s)
    \/ \E s \in Stores, c \in StoreChanges, t \in {None, Some(1)},
          clk \in Clock :
          /\ (Truthy(t) => clk = 1)
          /\ CallApply(s, <<"k1">>, c, t, clk)
    \/ \E s \in Stores, rem \in BOOLEAN : CallPrune(s, <<<<"k1">>>>, rem)

Spec == Init /\ [][Next]_vars

-----------------------------------------------------------------------------
(* The key/value facet used through write_store *)

\* the logical keys 'k1', 'k2' and 'k__x', which contains the separator
KVKeys == {<<"k1">>, <<"k2">>, <<"k", "x">>}

\* the arguments passed as keys to delete
KVKeyLists == {<<>>} \cup {<<k>> : k \in KVKeys} \cup {<<<<"k1">>, <<"k2">>>>}

NextKV ==
    \/ \E k \in KVKeys, v \in Values : CallSet("write_store", k, v)
    \/ \E ks \in KVKeyLists : CallDelete("write_store", ks)

SpecKV == InitES /\ [][NextKV]_vars

\* the keys 'a', 'ab', 'a.b' and 'axb' set before find is called
FindKeys == {<<"a">>, <<"ab">>, <<"a.b">>, <<"axb">>}

\* the patterns passed to find: none, and 'a', 'a*', 'a.b', '*b', 'a?', 'a?b',
\* '?', 'a???'
Patterns ==
    {None} \cup
    {Some(p) : p \in {<<"a">>, <<"a", "*">>, <<"a", ".", "b">>, <<"*", "b">>,
                      <<"a", "?">>, <<"a", "?", "b">>, <<"?">>,
                      <<"a", "?", "?", "?">>}}

NextFind ==
    \/ \E k \in FindKeys : CallSet("write_store", k, PyInt(1))
    \/ \E k \in FindKeys : CallDelete("write_store", <<k>>)
    \/ \E p \in Patterns : CallFind("write_store", p)

SpecFind == InitES /\ [][NextFind]_vars

-----------------------------------------------------------------------------
(* The time-series facet used through write_store *)

\* the timestamps of the data points and of the windows asked for
Times == {-1, 0, 1, 2}

\* the data points passed to extend: for 'k1' one point at a time, with a
\* second value at timestamp 1, or two points at once; for 'k2' one point
PointsOf(key) ==
    IF key = <<"k1">>
    THEN {<<<<t, PyInt(1)>>>> : t \in Times}
         \cup {<<<<1, PyInt(2)>>>>, <<<<1, PyInt(1)>>, <<2, PyInt(1)>>>>}
    ELSE {<<<<1, PyInt(1)>>>>}

\* the bounds passed to remove
Bounds == {None, Some(0), Some(1)}

NextTS ==
    \/ \E k \in Keys : \E pts \in PointsOf(k) : CallExtend("write_store", k, pts)
    \/ \E ks \in KeyLists \cup {<<<<"k2">>>>}, start \in Bounds, end \in Bounds :
          CallRemove("write_store", ks, start, end)

SpecTS == InitES /\ [][NextTS]_vars

-----------------------------------------------------------------------------
(* The value envelope: write_store, encrypted_store = Store(dsn, key=key,  *)
(* frozen=False) and json_store = JsonStore(dsn, frozen=False) of the      *)
(* tests.  As each test does, a store discards what it wrote before it     *)
(* leaves, so no store reads the bytes of another.                         *)

EnvelopeStores == {"write_store", "encrypted_store", "json_store"}

\* an int, a str, a tuple and a list
EnvelopeValues == {PyInt(1), PyStr(<<"a">>), PyTuple(<<1, 2>>), PyList(<<1, 2>>)}

NextEnvelope ==
    \/ \E s \in EnvelopeStores : Enter(s)
    \/ \E s \in EnvelopeStores : kvTable = {} /\ Exit(s)
    \/ \E s \in EnvelopeStores, v \in EnvelopeValues : CallSet(s, <<"k1">>, v)
    \/ \E s \in EnvelopeStores : CallDiscard(s)
    \/ \E s \in EnvelopeStores, v \in EnvelopeValues, encrypt \in BOOLEAN :
          CallValueToStore(s, v, encrypt)
    \/ \E s \in EnvelopeStores, decrypt \in BOOLEAN :
          CallValueFromStore(s, decrypt)

SpecEnvelope == Init /\ [][NextEnvelope]_vars

-----------------------------------------------------------------------------
(* Two namespaces on one backend: write_store with the namespace 'default' *)
(* and other_store, Store(dsn, namespace='default.sub', frozen=False).     *)
(* SqliteStore keeps the rows of all namespaces in the three tables of one *)
(* file and RedisStore keeps their keys in one keyspace; PsqlStore, which  *)
(* gives each namespace a schema with tables of its own, is left out.      *)

NamespaceStores == {"write_store", "other_store"}

\* the encoded namespace of other_store
OtherNamespace == <<"", "default", "sub">>

InitNS ==
    /\ backend \in {"sqlite", "redis"}
    /\ medium = (backend = "redis")
    /\ open = NoStore
    /\ conn = {}
    /\ kvTable = {} /\ tsTable = {} /\ esTable = {}
    /\ last = NoCall
    /\ pre = [kv |-> {}, ts |-> {}, es |-> {}]
    /\ wr = Idle

NextNS ==
    \/ \E s \in NamespaceStores : Enter(s)
    \/ \E s \in NamespaceStores : Exit(s)
    \/ \E s \in NamespaceStores : CallSet(s, <<"k1">>, PyInt(1))
    \/ \E s \in NamespaceStores : CallDelete(s, <<<<"k1">>>>)
    \/ \E s \in NamespaceStores : CallExtend(s, <<"k1">>, <<<<1, PyInt(1)>>>>)
    \/ \E s \in NamespaceStores : CallRemove(s, <<<<"k1">>>>, None, None)
    \/ \E s \in NamespaceStores :
          CallApply(s, <<"k1">>, [i \in {"a"} |-> <<PyInt(1)>>], Some(1), 1)
    \/ \E s \in NamespaceStores : CallPrune(s, <<<<"k1">>>>, TRUE)
    \/ \E s \in NamespaceStores : CallDiscard(s)

SpecNS == InitNS /\ [][NextNS]_vars

-----------------------------------------------------------------------------
(* Two clients call apply at the same time.  es_apply is a SELECT or a     *)
(* ZRANGEBYSCORE, then one INSERT per item inside a transaction, or one    *)
(* HMSET and ZADD per item queued in a pipeline, then the commit or the    *)
(* EXEC; the statements of the two clients interleave.                     *)

Other(w) == CHOOSE o \in Writers : o # w

\* the changes the racing calls pass
RaceChanges ==
    {[i \in {"a"} |-> <<PyInt(3)>>], [i \in {"b"} |-> <<PyInt(1)>>],
     [i \in Items |-> <<PyInt(1)>>]}

\* the primary key of table _es on the SQL backends
PrimaryKey(r) == <<r.key, r.ts, r.item, r.op>>

\* client w holds the write lock of the SQLite file: its transaction has
\* inserted a row and has not ended
HoldsLock(w) == wr[w].rows # {}

\* Store.apply up to the call of es_apply
ApplyBegin(w, key, state, t) ==
    /\ wr[w].pc = "idle"
    /\ wr' = [wr EXCEPT ![w] = [@ EXCEPT !.pc = "check", !.key = key,
                                         !.ts = t, !.state = state]]
    /\ UNCHANGED <<conn, backend, medium, open, kvTable, tsTable, esTable, last, pre>>

\* the existence check of es_apply, which sees the committed rows; KeyError
\* becomes StoreIntegrityError in Store.apply
EsApplyCheck(w) ==
    /\ wr[w].pc = "check"
    /\ IF es_exists(esTable, ns_key(wr[w].key), wr[w].ts)
       THEN wr' = [wr EXCEPT ![w] = [@ EXCEPT !.pc = "done",
                        !.ret = Raises({"StoreIntegrityError"})]]
       ELSE wr' = [wr EXCEPT ![w] = [@ EXCEPT !.pc = "insert",
                        !.todo = DOMAIN wr[w].state]]
    /\ UNCHANGED <<conn, backend, medium, open, kvTable, tsTable, esTable, last, pre>>

\* one iteration of the loop of es_apply, for item i.  On SQLite the INSERT
\* waits for the write lock; on PostgreSQL it waits while the other
\* transaction holds an uncommitted row with the same primary key; on both a
\* committed row with the same primary key makes it raise IntegrityError,
\* which leaves apply and ends the transaction.  On Redis the commands are
\* queued under a fresh row id.
EsApplyInsert(w, i) ==
    /\ wr[w].pc = "insert"
    /\ i \in wr[w].todo
    /\ LET raw  == RawState(wr[w].state)
           rows == es_rows(ns_key(wr[w].key), wr[w].ts, [j \in {i} |-> raw[j]],
                           IF backend = "redis" THEN w ELSE 0)
           next == IF wr[w].todo = {i} THEN "commit" ELSE "insert"
           taken(T) == \E r \in rows, x \in T : PrimaryKey(x) = PrimaryKey(r)
       IN  /\ backend = "sqlite" => ~HoldsLock(Other(w))
           /\ backend = "psql" => ~taken(wr[Other(w)].rows)
           /\ IF backend # "redis" /\ taken(esTable)
              THEN wr' = [wr EXCEPT ![w] = [@ EXCEPT !.pc = "done",
                               !.todo = {}, !.rows = {},
                               !.ret = Raises({"IntegrityError"})]]
              ELSE wr' = [wr EXCEPT ![w] = [@ EXCEPT !.pc = next,
                               !.todo = @ \ {i}, !.rows = @ \cup rows]]
    /\ UNCHANGED <<conn, backend, medium, open, kvTable, tsTable, esTable, last, pre>>

\* on SQLite an INSERT that has waited for the write lock longer than the
\* timeout of the connection raises OperationalError
EsApplyBusy(w) ==
    /\ backend = "sqlite"
    /\ wr[w].pc = "insert"
    /\ HoldsLock(Other(w))
    /\ wr' = [wr EXCEPT ![w] = [@ EXCEPT !.pc = "done", !.todo = {},
                                         !.ret = Raises({"OperationalError"})]]
    /\ UNCHANGED <<conn, backend, medium, open, kvTable, tsTable, esTable, last, pre>>

\* the commit or pipe.execute() of es_apply, and the return of Store.apply
EsApplyCommit(w) ==
    /\ wr[w].pc = "commit"
    /\ esTable' = esTable \cup wr[w].rows
    /\ wr' = [wr EXCEPT ![w] = [@ EXCEPT !.pc = "done", !.rows = {},
                                         !.ret = current(esTable', wr[w].key)]]
    /\ UNCHANGED <<conn, backend, medium, open, kvTable, tsTable, last, pre>>

InitConc == InitES

NextConc ==
    \/ \E w \in Writers, c \in RaceChanges, t \in Clock :
          ApplyBegin(w, <<"k1">>, c, t)
    \/ \E w \in Writers : EsApplyCheck(w)
    \/ \E w \in Writers, i \in Items : EsApplyInsert(w, i)
    \/ \E w \in Writers : EsApplyBusy(w)
    \/ \E w \in Writers : EsApplyCommit(w)

SpecConc == InitConc /\ [][NextConc]_vars

-----------------------------------------------------------------------------
(* Properties of the event sequences.  They are stated over the last call, *)
(* the tables before it (pre) and the tables after it.                     *)

\* the rows a table holds for the event of key at timestamp ts
RowsAt(table, key, ts) == {r \in table : r.key = ns_key(key) /\ r.ts = ts}

\* the timestamps at which a table holds an event of key
Stamps(table, key) == {r.ts : r \in {x \in table : x.key = ns_key(key)}}

\* the timestamps of Stamps that are at most t, all of them for None
StampsUpTo(table, key, t) ==
    {ts \in Stamps(table, key) : t # None => ts <= t[1]}

\* the changes recorded at ts: {item: <<operator, operand>>}
ChangeAt(table, key, ts) ==
    [i \in {r.item : r \in RowsAt(table, key, ts)} |->
        LET r == CHOOSE x \in RowsAt(table, key, ts) : x.item = i
        IN  <<pickle_loads(r.op), value_from_store(r.value)>>]

\* one event folded into a state by the rules of the four tags: set assigns,
\* delete removes, a binary operator combines the item with the operand, a
\* unary operator transforms the item; undefined where an item is missing,
\* the operator is none of the four or the operator function fails
FoldChange(state, change) ==
    LET op(i)  == change[i][1]
        new(i) == IF op(i) \in AssignOps THEN Ok(change[i][2])
                  ELSE IF op(i) \in BinaryOps
                  THEN BinaryOp(op(i), state[i], change[i][2])
                  ELSE UnaryOp(op(i), state[i])
        defined == \A i \in DOMAIN change :
                      /\ op(i) \in ClosedOps
                      /\ (op(i) \notin AssignOps => i \in DOMAIN state)
                      /\ (op(i) \notin RemoveOps => new(i).ok)
        keep == (DOMAIN state \cup DOMAIN change)
                    \ {i \in DOMAIN change : op(i) \in RemoveOps}
    IN  IF ~defined THEN Raises({"undefined"})
        ELSE Ret([i \in keep |->
                    IF i \in DOMAIN change THEN new(i).v ELSE state[i]])

\* the fold of the events at stamps[n..], an ascending sequence
RECURSIVE Fold(_, _, _, _, _)
Fold(table, key, stamps, n, state) ==
    IF n > Len(stamps) THEN Ret(state)
    ELSE LET r == FoldChange(state, ChangeAt(table, key, stamps[n]))
         IN  IF r.st = "raise" THEN r
             ELSE Fold(table, key, stamps, n + 1, r.v)

\* the fold from the empty mapping of the events of key up to t, None when
\* there is none
FoldUpTo(table, key, t) ==
    IF StampsUpTo(table, key, t) = {} THEN RetNone
    ELSE Fold(table, key, Ascending(StampsUpTo(table, key, t)), 1, EmptyState)

\* the last call is apply(key, changes, t) with an explicit t
ExplicitApply == last.op = "apply" /\ last.t # None

\* C1: apply(key, changes, t) with non-empty changes and an explicit t at
\* which key already has an event raises StoreIntegrityError and leaves the
\* event log as it was.
C1_DuplicateTimestampRejected ==
    (/\ ExplicitApply
     /\ DOMAIN last.state # {}
     /\ RowsAt(pre.es, last.keys[1], last.t[1]) # {})
    => /\ last.ret = Raises({"StoreIntegrityError"})
       /\ esTable = pre.es

\* an apply with changes at the explicit timestamp of a stored event has been
\* refused
C1_Witness ==
    /\ ExplicitApply
    /\ DOMAIN last.state # {}
    /\ RowsAt(pre.es, last.keys[1], last.t[1]) # {}
    /\ last.ret.exc = {"StoreIntegrityError"}

\* both clients have left apply, which they called with the same key and
\* the same explicit timestamp
RaceOver ==
    /\ \A w \in Writers : wr[w].pc = "done"
    /\ wr[1].key = wr[2].key
    /\ wr[1].ts = wr[2].ts

\* the event a table holds for key at ts: {item: <<raw_op, raw_value>>} per
\* stored row
StoredEntries(table, key, ts) ==
    {<<r.item, r.op, r.value>> : r \in RowsAt(table, key, ts)}

\* the entries the call of client w asked to store
AskedEntries(w) ==
    {<<i, RawState(wr[w].state)[i][1], RawState(wr[w].state)[i][2]>> :
        i \in DOMAIN wr[w].state}

\* C2: of two apply calls with non-empty changes racing on the same key and
\* the same explicit timestamp at most one succeeds, the other fails with
\* StoreIntegrityError, and the events stored at that timestamp are exactly
\* the items of one single call.
C2_RacingAppliesExclude ==
    RaceOver =>
        /\ \E w \in Writers : wr[w].ret = Raises({"StoreIntegrityError"})
        /\ \E w \in Writers :
              /\ StoredEntries(esTable, wr[w].key, wr[w].ts) = AskedEntries(w)
              /\ Cardinality(RowsAt(esTable, wr[w].key, wr[w].ts))
                     = Cardinality(DOMAIN wr[w].state)

\* C3: current(key) and the value the last apply returned are the fold, in
\* ascending timestamp order from the empty mapping, of all recorded events
\* of the key, and past(key, t) is that fold over the events with timestamp
\* at most t.
C3_StateIsFoldOfEvents ==
    /\ \A k \in Keys, t \in TimeArgs :
          FoldUpTo(esTable, k, t).st = "return"
              => past(esTable, k, t) = FoldUpTo(esTable, k, t)
    /\ (last.op = "apply" /\ last.ret.st = "return"
            /\ FoldUpTo(esTable, last.keys[1], None).st = "return")
        => last.ret = FoldUpTo(esTable, last.keys[1], None)

\* the last call is apply(key, {item: v}, T0) with an explicit T0 that was
\* free, v a bare value
BackdatedAssign ==
    /\ ExplicitApply
    /\ Cardinality(DOMAIN last.state) = 1
    /\ \A i \in DOMAIN last.state : Len(last.state[i]) = 1
    /\ RowsAt(pre.es, last.keys[1], last.t[1]) = {}

\* C4: apply(key, {item: v}, T0) with T0 free and earlier than a timestamp T2
\* at which the item was assigned leaves the item's value in current(key)
\* unchanged, and past(key, T0) maps the item to v; an item assigned at T0
\* that no later event touches is mapped to v by current(key).  (Stated for
\* a log that current(key) could replay before the call.)
C4_BackdatedEvent ==
    BackdatedAssign =>
        LET key == last.keys[1]
            T0  == last.t[1]
            i   == CHOOSE x \in DOMAIN last.state : TRUE
            v   == last.state[i][1]
            later    == {r \in pre.es : r.key = ns_key(key) /\ r.item = i
                                         /\ r.ts > T0}
            assigned == {r \in later : pickle_loads(r.op) \in AssignOps}
            before   == current(pre.es, key)
            after    == current(esTable, key)
            at       == past(esTable, key, last.t)
            maps(s, x) == s.st = "return" /\ ~s.none /\ i \in DOMAIN s.v
                              /\ s.v[i] = x
        IN  /\ (assigned # {} /\ before.st = "return" /\ ~before.none
                    /\ i \in DOMAIN before.v)
                => /\ maps(after, before.v[i])
                   /\ maps(at, v)
            /\ (later = {} /\ before.st = "return") => maps(after, v)

\* C5: apply(key, {}) appends no event, creates no sequence, and returns the
\* current state, None for a key with no events.
C5_EmptyApplyReadsCurrent ==
    (last.op = "apply" /\ DOMAIN last.state = {} /\ last.t = None)
    => /\ esTable = pre.es
       /\ last.ret = current(pre.es, last.keys[1])

\* C6: apply(key, {}, t) appends no event and returns the current state
\* without raising StoreIntegrityError, for every t, also one at which the
\* key has an event.
C6_EmptyApplyAtAnyTime ==
    (last.op = "apply" /\ DOMAIN last.state = {})
    => /\ esTable = pre.es
       /\ "StoreIntegrityError" \notin last.ret.exc
       /\ last.ret = current(pre.es, last.keys[1])

\* the last call was made on the frozen store
OnFrozen == last.store = "read_store"

\* the methods that check the frozen flag
GuardedWrites == {"set", "delete", "extend", "remove", "discard"}

\* C7: on a frozen store set, delete, extend, remove and discard raise
\* FrozenStoreError and leave the store as it was.
C7_FrozenRejectsWrites ==
    (OnFrozen /\ last.op \in GuardedWrites)
    => /\ last.ret = Raises({"FrozenStoreError"})
       /\ Tables = pre
       /\ medium

\* one of the five methods has been refused by a frozen store that holds a
\* pair, a data point and an event
C7_Witness ==
    /\ OnFrozen
    /\ last.op \in GuardedWrites
    /\ last.ret.exc = {"FrozenStoreError"}
    /\ kvTable # {} /\ tsTable # {} /\ esTable # {}

\* C8: on a frozen store apply with non-empty changes and prune raise
\* FrozenStoreError and leave the recorded events as they were.
C8_FrozenRejectsEvents ==
    (/\ OnFrozen
     /\ \/ last.op = "apply" /\ DOMAIN last.state # {}
        \/ last.op = "prune")
    => /\ last.ret = Raises({"FrozenStoreError"})
       /\ esTable = pre.es

\* the last call is prune(*keys, remove=True) and has returned
PruneRemoved ==
    last.op = "prune" /\ last.args = <<TRUE>> /\ last.ret.st = "return"

\* a key of the sequence keys
KeysOf(keys) == {keys[n] : n \in DOMAIN keys}

\* C9: when current(key) is the empty mapping, prune(key, remove=True)
\* deletes the sequence: afterwards current(key) and events(key) are None and
\* key is not in eventsequences().
C9_PruneRemovesEmptySequence ==
    PruneRemoved =>
        \A key \in KeysOf(last.keys) :
            current(pre.es, key) = Ret(EmptyState)
            => /\ current(esTable, key) = RetNone
               /\ events(esTable, key, None, None, {}) = RetNone
               /\ eventsequences(esTable).st = "return"
               /\ key \notin eventsequences(esTable).v

\* a sequence whose state was the empty mapping has been pruned
C9_Witness ==
    /\ PruneRemoved
    /\ \E key \in KeysOf(last.keys) :
          /\ current(pre.es, key) = Ret(EmptyState)
          /\ Stamps(pre.es, key) # {}
          /\ Stamps(esTable, key) = {}

\* C10: past(key, t) returns None exactly when key has no event with
\* timestamp at most t, and a mapping, which may be empty, otherwise;
\* current(key) does the same over all events.
C10_PastNoneIffNoEvent ==
    \A k \in Keys, t \in TimeArgs :
        LET p == past(esTable, k, t)
        IN  p.st = "return" => (p.none <=> StampsUpTo(esTable, k, t) = {})

\* the rows of a table stored under the namespace of other_store
Foreign(table) ==
    {r \in table : Len(r.key) > Len(OtherNamespace)
                   /\ SubSeq(r.key, 1, Len(OtherNamespace)) = OtherNamespace}

\* C11: no operation on a store returns, fails on, modifies or deletes an
\* item stored under another namespace: with items of the namespace
\* 'default.sub' stored, keys(), find(), timeseries() and eventsequences()
\* of the store of namespace 'default' return, and no call on that store,
\* discard included, changes the items of 'default.sub'.
C11_NamespacesIsolated ==
    /\ (open = "write_store" /\ medium)
       => /\ store_keys(kvTable).st = "return"
          /\ find(kvTable, None).st = "return"
          /\ timeseries(tsTable).st = "return"
          /\ eventsequences(esTable).st = "return"
    /\ last.store = "write_store"
       => /\ Foreign(kvTable) = Foreign(pre.kv)
          /\ Foreign(tsTable) = Foreign(pre.ts)
          /\ Foreign(esTable) = Foreign(pre.es)

\* the default passed to get
Dflt == PyStr(<<"d">>)

\* the logical keys with a row in a table _kv
StoredKeys(table) == {k \in KVKeys : kv_get(table, ns_key(k)) # None}

\* C12: after any sequence of set and delete calls on a writable store,
\* get(k, d) is the value of the latest set(k, .) not followed by a delete of
\* k, and d otherwise (stated call by call: a set makes get return its value,
\* a delete makes get return d for its keys, every other key reads as
\* before); has(k) is true iff k is in keys(); keys() holds each stored key
\* once and len(store) is the number of distinct stored keys; a delete of an
\* absent key or of no keys changes nothing.
C12_KeyValueSemantics ==
    /\ last.op = "-" => \A k \in KVKeys : get(kvTable, k, Dflt) = Dflt
    /\ last.op = "set"
       => \A k \in KVKeys :
              get(kvTable, k, Dflt) =
                  IF k = last.keys[1] THEN last.args[1]
                  ELSE get(pre.kv, k, Dflt)
    /\ last.op = "delete"
       => /\ \A k \in KVKeys :
                 get(kvTable, k, Dflt) =
                     IF \E n \in DOMAIN last.keys : last.keys[n] = k THEN Dflt
                     ELSE get(pre.kv, k, Dflt)
          /\ (\A n \in DOMAIN last.keys : last.keys[n] \notin StoredKeys(pre.kv))
             => kvTable = pre.kv
    /\ store_keys(kvTable).st = "return"
    /\ store_keys(kvTable).v = StoredKeys(kvTable)
    /\ \A k \in KVKeys : /\ has(kvTable, k).st = "return"
                          /\ has(kvTable, k).v = (k \in StoredKeys(kvTable))
    /\ len(kvTable).st = "return"
    /\ len(kvTable).v = Cardinality(StoredKeys(kvTable))

\* whether the glob pattern pat[p..] matches the whole of chars[j..]: '*'
\* matches any run of characters, '?' exactly one, any other character itself
RECURSIVE GlobMatches(_, _, _, _)
GlobMatches(pat, p, chars, j) ==
    IF p > Len(pat) THEN j > Len(chars)
    ELSE IF pat[p] = "*"
    THEN \/ GlobMatches(pat, p + 1, chars, j)
         \/ j <= Len(chars) /\ GlobMatches(pat, p, chars, j + 1)
    ELSE /\ j <= Len(chars)
         /\ (pat[p] = "?" \/ pat[p] = chars[j])
         /\ GlobMatches(pat, p + 1, chars, j + 1)

\* C13: find(pattern) returns exactly the pairs (k, get(k)) of the stored
\* keys k whose whole key matches the glob pattern ('*' any run of
\* characters, '?' exactly one character, every other character, '.'
\* included, itself), and find() returns all stored key/value pairs.
C13_FindMatchesGlob ==
    last.op = "find"
    => /\ last.ret.st = "return"
       /\ last.ret.v =
              {<<k, get(kvTable, k, None)>> :
                  k \in {x \in store_keys(kvTable).v :
                           \/ last.args[1] = None
                           \/ GlobMatches(last.args[1][1], 1,
                                          Characters[x[1]], 1)}}

\* C14: after any sequence of extend and remove calls a backend holds at
\* most one point per key and timestamp, and after an extend the raw range
\* over [t, t] of each timestamp t written is exactly one point, carrying the
\* value the call wrote last at t.
C14_OnePointPerTimestamp ==
    /\ \A k \in Keys, t \in Times :
           Len(ts_range(tsTable, ns_key(k), t, t)) <= 1
    /\ (last.op = "extend" /\ last.ret.st = "return")
       => \A i \in DOMAIN last.args :
              (\A j \in DOMAIN last.args :
                   j > i => last.args[j][1] # last.args[i][1])
              => ts_range(tsTable, ns_key(last.keys[1]),
                          last.args[i][1], last.args[i][1])
                 = <<<<last.args[i][1], value_to_store(last.args[i][2])>>>>

\* the timestamps stored for a key
StoredTimes(table, key) == {r.ts : r \in {x \in table : x.key = ns_key(key)}}

Least(T) == CHOOSE x \in T : \A y \in T : x <= y

Greatest(T) == CHOOSE x \in T : \A y \in T : x >= y

\* the greedy decimation of the timestamps T by the frequency f: the earliest
\* one, then always the earliest that is f or more after the one before
RECURSIVE Decimation(_, _)
Decimation(T, f) ==
    IF T = {} THEN <<>>
    ELSE <<Least(T)>> \o Decimation({t \in T : t >= Least(T) + f}, f)

\* the window [start, end] of a key, an unset bound being the key's earliest
\* or latest timestamp; the key has a point
Window(table, key, start, end) ==
    [lo |-> IF start = None THEN Least(StoredTimes(table, key)) ELSE start[1],
     hi |-> IF end = None THEN Greatest(StoredTimes(table, key)) ELSE end[1]]

\* the bounds of the windows asked for
WindowBounds == {None} \cup {Some(t) : t \in Times}

\* the frequencies asked for
Freqs == {1, 2}

\* C15: with a positive frequency f, range(key, start, end) is the greedy
\* decimation of the stored points of the window: the earliest point of the
\* window, then always the earliest point f or more after the point before;
\* an unset bound is the key's earliest or latest timestamp, and the result
\* is [] when the key has no point or end < start.
C15_RangeDecimates ==
    \A k \in Keys, start \in WindowBounds, end \in WindowBounds, f \in Freqs :
        LET r == range(tsTable, k, start, end, None, Some(f))
            T == StoredTimes(tsTable, k)
            w == Window(tsTable, k, start, end)
        IN  /\ r.st = "return"
            /\ [i \in DOMAIN r.v |-> r.v[i][1]] =
                   IF T = {} \/ w.hi < w.lo THEN <<>>
                   ELSE Decimation({t \in T : w.lo <= t /\ t <= w.hi}, f)
            /\ \A i \in DOMAIN r.v :
                   \E x \in tsTable :
                       /\ x.key = ns_key(k) /\ x.ts = r.v[i][1]
                       /\ r.v[i][2] = value_from_store(x.value)

\* the values an extend wrote last at the timestamp t of its key
Written(t) ==
    {last.args[i][2] : i \in {j \in DOMAIN last.args :
        /\ last.args[j][1] = t
        /\ \A h \in DOMAIN last.args : h > j => last.args[h][1] # t}}

\* C16: for a key with a stored point, first(key) is the pair of the least
\* stored timestamp and last(key) the pair of the greatest, each with a value
\* stored at that timestamp, which after an extend that wrote there is the
\* value written; for a key without points both return None; neither raises.
C16_FirstAndLast ==
    \A k \in Keys :
        LET T == StoredTimes(tsTable, k)
            f == first(tsTable, k)
            l == last_point(tsTable, k)
            wrote == last.op = "extend" /\ last.ret.st = "return"
                     /\ last.keys[1] = k
        IN  /\ f.st = "return" /\ l.st = "return"
            /\ T = {} => f.none /\ l.none
            /\ T # {}
               => /\ ~f.none /\ ~l.none
                  /\ f.v[1] = Least(T) /\ l.v[1] = Greatest(T)
                  /\ \E x \in tsTable :
                         /\ x.key = ns_key(k) /\ x.ts = f.v[1]
                         /\ f.v[2] = value_from_store(x.value)
                  /\ \E x \in tsTable :
                         /\ x.key = ns_key(k) /\ x.ts = l.v[1]
                         /\ l.v[2] = value_from_store(x.value)
                  /\ (wrote /\ Written(f.v[1]) # {}) => f.v[2] \in Written(f.v[1])
                  /\ (wrote /\ Written(l.v[1]) # {}) => l.v[2] \in Written(l.v[1])

\* the timestamps start + k * f up to end
Grid(start, end, f) ==
    {g \in start..end : \E k \in 0..(end - start) : g = start + k * f}

\* C17: for a key with stored points, a frequency f and a window
\* start <= end, each grid timestamp start + k * f <= end is in exactly one
\* of missing(key, start, end, f) and the timestamps of
\* range(key, start, end=end, freq=f).
C17_MissingComplementsRange ==
    \A k \in Keys, start \in Times, end \in Times, f \in Freqs :
        (StoredTimes(tsTable, k) # {} /\ start <= end)
        => LET m == missing(tsTable, k, start, Some(end), Some(f))
               r == range(tsTable, k, Some(start), Some(end), None, Some(f))
           IN  /\ m.st = "return" /\ r.st = "return"
               /\ \A g \in Grid(start, end, f) :
                      (\E i \in DOMAIN m.v : m.v[i] = g)
                      <=> ~(\E i \in DOMAIN r.v : r.v[i][1] = g)

\* the frequency arguments: none, 0, and the frequencies asked for
FreqArgs == {None, Some(0)} \cup {Some(f) : f \in Freqs}

\* C18: iscomplete(key, start, end, freq) is true iff
\* missing(key, start, end, freq) is the empty list, for every key, window
\* and frequency; without a frequency from the argument or the store default
\* both raise instead of returning.
C18_CompleteIffNothingMissing ==
    \A k \in Keys, start \in Times, end \in WindowBounds, freq \in FreqArgs :
        LET m == missing(tsTable, k, start, end, freq)
            c == iscomplete(tsTable, k, start, end, freq)
        IN  IF Truthy(freq) \/ default_freq # None
            THEN /\ m.st = "return" /\ c.st = "return"
                 /\ c.v <=> (m.v = <<>>)
            ELSE /\ m.st = "raise" /\ c.st = "raise"

\* 'k1' holds points at 1 and 2 and none at 0: the window [1, 2] is complete
\* at the frequency 1, the window [0, 2] is not, and without a frequency
\* iscomplete raises
C18_Witness ==
    /\ StoredTimes(tsTable, <<"k1">>) = {1, 2}
    /\ iscomplete(tsTable, <<"k1">>, 1, Some(2), Some(1)) = Ret(TRUE)
    /\ iscomplete(tsTable, <<"k1">>, 0, Some(2), Some(1)) = Ret(FALSE)
    /\ missing(tsTable, <<"k1">>, 0, Some(2), Some(1)) = Ret(<<0>>)
    /\ iscomplete(tsTable, <<"k1">>, 1, Some(2), None).st = "raise"

\* whether remove(*keys, start, end) is to delete the row r of the table
ToRemove(table, keys, start, end, r) ==
    \E n \in DOMAIN keys :
        /\ r.key = ns_key(keys[n])
        /\ LET w == Window(table, keys[n], start, end)
           IN  w.lo <= r.ts /\ r.ts <= w.hi

\* C19: remove(keys..., start, end) returns and deletes, for each key
\* listed, exactly the stored points with start <= timestamp <= end, an unset
\* bound being the key's own first or last timestamp; a listed key without
\* points is skipped; all other points and the key/value and event data are
\* unchanged, and a key without points left is not in timeseries().
C19_RemoveDeletesWindow ==
    /\ last.op = "remove"
       => /\ last.ret.st = "return"
          /\ tsTable = {r \in pre.ts :
                          ~ToRemove(pre.ts, last.keys, last.args[1],
                                    last.args[2], r)}
          /\ kvTable = pre.kv /\ esTable = pre.es
    /\ timeseries(tsTable).st = "return"
    /\ timeseries(tsTable).v = {k \in Keys : StoredTimes(tsTable, k) # {}}

\* whether the namespace of the stores exists in the backend: the file of
\* SqliteStore, the schema of PsqlStore, and on Redis, where nothing but the
\* keys of a namespace is kept, a key of the namespace
NamespaceExists ==
    IF backend = "redis"
    THEN \E r \in kvTable \cup tsTable \cup esTable : InNamespace(r.key)
    ELSE medium

\* C20: opening a store with frozen=False creates the storage of the
\* namespace if it does not exist and succeeds; opening with frozen=True
\* fails with StoreNotAvailableError whenever the namespace does not exist;
\* a failing open raises StoreNotAvailableError and nothing else.
C20_OpenCreatesOrFails ==
    [][\A s \in Stores :
          (open = NoStore /\ last'.op = "enter" /\ last'.store = s)
          => /\ ~Frozen(s) => /\ last'.ret.st = "return"
                              /\ open' = s
                              /\ medium'
             /\ (Frozen(s) /\ ~NamespaceExists)
                => /\ last'.ret = Raises({"StoreNotAvailableError"})
                   /\ open' = NoStore
             /\ last'.ret.st = "raise"
                => last'.ret.exc = {"StoreNotAvailableError"}]_vars

\* the raw data points Store.extend passes to ts_extend for the call in last
RawPoints ==
    [n \in DOMAIN last.args |->
        <<last.args[n][1], value_to_store(last.args[n][2])>>]

\* C21: the three backends return the same results at every step of a
\* sequence of time-series calls.  Stated step by step against SqliteStore:
\* started from the same table, the backend of the store holds after an
\* extend the points SqliteStore holds, and its ts_range returns for every
\* key and window what SqliteStore returns: the stored points of the window,
\* one per timestamp, in ascending order.
C21_BackendsAgreeOnSeries ==
    /\ (last.op = "extend" /\ last.ret.st = "return")
       => tsTable = sqlite_ts_extend(pre.ts, ns_key(last.keys[1]),
                                     RawPoints, 1)
    /\ \A k \in Keys, start \in Times, end \in Times :
           LET raw == ts_range(tsTable, ns_key(k), start, end)
           IN  /\ \A i \in DOMAIN raw :
                      [key |-> ns_key(k), ts |-> raw[i][1],
                       value |-> raw[i][2]] \in tsTable
               /\ \A i \in DOMAIN raw, j \in DOMAIN raw :
                      i < j => raw[i][1] < raw[j][1]

\* whether the call in last had a key configured and the flag set
Keyed(flag) == StoreKey # None /\ flag

\* what the envelope says of the value v: the bytes of _value_to_store are
\* encrypted iff a key is configured and encrypt is true, _value_from_store
\* decrypts iff a key is configured and decrypt is true (so it returns iff
\* the bytes are as encrypted as it takes them to be), and the round trip
\* with both flags true, like get after set, gives v
EnvelopeHolds(Back(_)) ==
    /\ last.op = "_value_to_store"
       => (last.ret.v[1] = "fernet" <=> Keyed(last.args[2]))
    /\ last.op = "_value_from_store"
       => /\ last.ret.st = "return" <=> (Keyed(last.args[2]) <=> Keyed(last.args[3]))
          /\ (last.args[2] /\ last.args[3]) => last.ret = Ret(Back(last.args[1]))
    /\ (last.op = "set" /\ last.ret.st = "return" /\ last.store \in EnvelopeStores)
       => get(kvTable, last.keys[1], Dflt) = Back(last.args[1])

\* the value as it is
Same(v) == v

\* the value as JSON gives it back: a tuple as the list of its items
ThroughJson(v) ==
    IF StoreClass = "JsonStore" /\ v.k = "tuple" THEN PyList(v.s) ELSE v

\* C22 as stated: for every value v and every store (plain, encrypted,
\* JSON-serializing) _value_from_store(_value_to_store(v, True), True) == v,
\* the bytes are encrypted iff a key is configured and encrypt is true and
\* decrypted iff a key is configured and decrypt is true, and get(k) after
\* set(k, v) returns v.
C22_RoundTripAnyValue == EnvelopeHolds(Same)

\* C22, amended: as above on the stores with the default serializer, with and
\* without a key; on the JSON-serializing store the round trip and get after
\* set return v with every tuple replaced by the list of its items.
C22_RoundTripUpToJson == EnvelopeHolds(ThroughJson)

\* the encrypted store has taken a tuple through encryption and back
C22_Witness ==
    /\ last.op = "_value_from_store" /\ last.store = "encrypted_store"
    /\ last.args = <<PyTuple(<<1, 2>>), TRUE, TRUE>>
    /\ last.ret = Ret(PyTuple(<<1, 2>>))

\* C23: for every sequence of apply, events, current, past, prune and
\* eventsequences calls with integer timestamps and bounds, 0 included, a
\* Store on SqliteStore, on PsqlStore and on RedisStore return the same
\* results at every step: on the backend of the store, events(key, start,
\* end) returns the events that the SELECT of SqliteStore.es_events selects
\* from the same log, and past(key, t) is None exactly when that SELECT
\* finds no event up to t.
C23_BackendsAgreeOnEvents ==
    \A k \in Keys, start \in TimeArgs, end \in TimeArgs :
        LET evs == events(esTable, k, start, end, {})
            sql == SqlEventRows(esTable, ns_key(k), start, end, {})
            upto == SqlEventRows(esTable, ns_key(k), None, end, {})
        IN  /\ (evs.st = "return" /\ ~evs.none)
               => {evs.v[n][1] : n \in DOMAIN evs.v} = {r.ts : r \in sql}
            /\ past(esTable, k, end).st = "return"
               => (past(esTable, k, end).none <=> upto = {})

\* the rows of the event log of a key
LogOf(table, key) == {r \in table : r.key = ns_key(key)}

\* the current state of the key is a mapping with at least one item
NonEmptyState(table, key) ==
    LET cur == current(table, key)
    IN  cur.st = "return" /\ ~cur.none /\ cur.v # EmptyState

\* C24: prune leaves the event log untouched unless the sequence is empty
\* and removal was requested: if current(key) is a non-empty mapping, or
\* remove is not True, then after prune(key, remove=...) the log of the key
\* and events(key) are what they were, events shadowed by later ones
\* included; pruning keys that have no events changes nothing and returns.
C24_PruneKeepsLog ==
    last.op = "prune" =>
        /\ \A k \in Keys :
               (NonEmptyState(pre.es, k) \/ last.args[1] # TRUE)
               => /\ LogOf(esTable, k) = LogOf(pre.es, k)
                  /\ events(esTable, k, None, None, {})
                        = events(pre.es, k, None, None, {})
        /\ (\A k \in KeysOf(last.keys) : LogOf(pre.es, k) = {})
               => esTable = pre.es /\ last.ret = RetNone

\* prune with remove=True has returned on a key whose state is not empty
\* and whose log holds two events
C24_Witness ==
    /\ last.op = "prune" /\ last.args[1] = TRUE /\ last.ret.st = "return"
    /\ \E k \in KeysOf(last.keys) :
           /\ NonEmptyState(pre.es, k)
           /\ Cardinality({r.ts : r \in LogOf(pre.es, k)}) = 2
           /\ LogOf(esTable, k) = LogOf(pre.es, k)

\* C25: for every namespace and every non-empty key k, keys that contain the
\* separator '__' included, _un_ns_key(_ns_key(k)) == k, so that after
\* set(k, v) has returned has(k) returns True and keys() returns a list
\* that holds k.
C25_CodecRoundTrip ==
    (last.op = "set" /\ last.ret.st = "return") =>
        LET k == last.keys[1]
        IN  /\ un_ns_key(ns_key(k)).ok
            /\ un_ns_key(ns_key(k)).v = k
            /\ has(kvTable, k).st = "return"
            /\ has(kvTable, k).v = TRUE
            /\ store_keys(kvTable).st = "return"
            /\ k \in store_keys(kvTable).v

\* the timestamps supplied to the extend in last
Supplied == {last.args[n][1] : n \in DOMAIN last.args}

\* the value supplied last for timestamp t
LastSupplied(t) ==
    LET at == {n \in DOMAIN last.args : last.args[n][1] = t}
    IN  last.args[CHOOSE n \in at : \A m \in at : m <= n][2]

\* C26: after extend(key, p1, ..., pn) has returned on a writable store, for
\* every supplied timestamp the stored value is the last value supplied for
\* it in the call, whether or not some of the timestamps were stored before
\* and in whatever order they come; the other points are unchanged.
C26_NoLostWrites ==
    (last.op = "extend" /\ last.ret.st = "return") =>
        LET nsKey == ns_key(last.keys[1])
            other(table) == {r \in table : ~(r.key = nsKey /\ r.ts \in Supplied)}
        IN  /\ \A t \in Supplied :
                   {r.value : r \in {x \in tsTable : x.key = nsKey /\ x.ts = t}}
                       = {value_to_store(LastSupplied(t))}
            /\ other(tsTable) = other(pre.ts)

\* the values of n passed to range
Counts == {0, 1, 2}

\* the first n elements of a list, the whole list if it is shorter
FirstN(seq, n) == SubSeq(seq, 1, IF n < Len(seq) THEN n ELSE Len(seq))

\* C27: for every integer n >= 0 passed to range, the returned list has at
\* most n points and is the first min(n, m) points of the list that the same
\* call without n returns, m being the length of that list.
C27_RangeStopsAtN ==
    \A k \in Keys, start \in WindowBounds, end \in WindowBounds,
       n \in Counts, freq \in FreqArgs :
        LET some == range(tsTable, k, start, end, Some(n), freq)
            all  == range(tsTable, k, start, end, None, freq)
        IN  (some.st = "return" /\ all.st = "return")
            => /\ Len(some.v) <= n
               /\ some.v = FirstN(all.v, n)

\* C28: when no frequency applies (no freq argument, default None) and n is
\* not given, range(key, start, end) returns every stored point with
\* start <= timestamp <= end, each once with its stored value, in strictly
\* ascending order of timestamp, for timestamps that are zero or negative
\* as well.
C28_RangeReturnsWindow ==
    \A k \in Keys, start \in Times, end \in Times :
        LET r == range(tsTable, k, Some(start), Some(end), None, None)
            stored == {x \in tsTable :
                          x.key = ns_key(k) /\ start <= x.ts /\ x.ts <= end}
        IN  /\ r.st = "return"
            /\ {r.v[i] : i \in DOMAIN r.v}
                   = {<<x.ts, value_from_store(x.value)>> : x \in stored}
            /\ \A i \in DOMAIN r.v, j \in DOMAIN r.v :
                   i < j => r.v[i][1] < r.v[j][1]

\* C29: every timestamp that missing(key, start, end, freq) returns is a
\* member of the sequence start, start + freq, ... and lies in the window
\* [start, end], for start <= end and freq > 0, also when end - start is not
\* a multiple of freq; without end the window is [start, start].
C29_MissingWithinWindow ==
    \A k \in Keys, start \in Times, end \in WindowBounds, f \in Freqs :
        LET hi == IF end = None THEN start ELSE end[1]
            m  == missing(tsTable, k, start, end, Some(f))
        IN  (start <= hi /\ m.st = "return")
            => \A i \in DOMAIN m.v : m.v[i] \in Grid(start, hi, f)

\* C30: missing never reports a timestamp at which a point is stored: for
\* every stored points of a key, on or off the grid of the frequency, and
\* every window, no timestamp of missing(key, start, end, freq) is the
\* timestamp of a stored point of the key.
C30_MissingNotStored ==
    \A k \in Keys, start \in Times, end \in WindowBounds, f \in Freqs :
        LET m == missing(tsTable, k, start, end, Some(f))
        IN  m.st = "return"
            => \A i \in DOMAIN m.v : m.v[i] \notin StoredTimes(tsTable, k)

\* C31: the backend connection is released on every exit path: once the
\* with-block of a Store has ended, normally or by an exception, no
\* connection is held, and when opening fails with StoreNotAvailableError
\* the connection acquired during that open is closed as well; so only the
\* Store that is inside its with-block holds a connection.
C31_ConnectionReleased ==
    /\ \A s \in conn : open = s
    /\ (last.op = "exit" \/ (last.op = "enter" /\ last.ret.st = "raise"))
       => last.store \notin conn

\* the arguments passed as ops to events: none, the empty list, and lists of
\* operators
OpsArgs == {None, Some({}), Some({"setitem"}), Some({"add", "delitem"})}

\* the recorded events of a key that the arguments of events ask for
Matching(table, key, start, end, ops) ==
    {r \in LogOf(table, key) :
        /\ (start # None => start[1] <= r.ts)
        /\ (end # None => r.ts <= end[1])
        /\ (ops # None => pickle_loads(r.op) \in ops[1])}

\* C32: for a key with at least one recorded event, events(key, start, end,
\* ops) returns a list, never None, of (timestamp, {item: (operator,
\* operand)}) groups with strictly ascending timestamps that holds exactly
\* the recorded events with start <= t <= end whose operator is in ops when
\* ops is given; the operand is the operand that was passed to apply.
C32_EventsReturnsMatching ==
    /\ \A k \in Keys, start \in TimeArgs, end \in TimeArgs, ops \in OpsArgs :
           LET evs == events(esTable, k, start, end,
                             IF ops = None THEN {} ELSE ops[1])
           IN  LogOf(esTable, k) # {}
               => /\ evs.st = "return" /\ ~evs.none
                  /\ \A n \in DOMAIN evs.v, m \in DOMAIN evs.v :
                         n < m => evs.v[n][1] < evs.v[m][1]
                  /\ UNION {{<<evs.v[n][1], i, evs.v[n][2][i][1], evs.v[n][2][i][2]>> :
                                i \in DOMAIN evs.v[n][2]} : n \in DOMAIN evs.v}
                         = {<<r.ts, r.item, pickle_loads(r.op), value_from_store(r.value)>> :
                                r \in Matching(esTable, k, start, end, ops)}
    /\ (last.op = "apply" /\ esTable # pre.es)
       => LET ts  == IF Truthy(last.t) THEN last.t[1] ELSE last.args[1]
              evs == events(esTable, last.keys[1], Some(ts), Some(ts), {})
          IN  /\ evs.st = "return" /\ ~evs.none /\ Len(evs.v) = 1
              /\ evs.v[1][2] = [i \in DOMAIN last.state |-> Normalize(last.state[i])]

\* C33: in every state reached by apply and prune calls and for every key k:
\* k is in eventsequences() iff at least one event is recorded for k iff
\* events(k) is not None iff current(k) is not None.
C33_KnownIffRecorded ==
    \A k \in Keys :
        LET seqs == eventsequences(esTable)
            evs  == events(esTable, k, None, None, {})
            cur  == current(esTable, k)
            recorded == LogOf(esTable, k) # {}
        IN  /\ seqs.st = "return" /\ (k \in seqs.v <=> recorded)
            /\ evs.st = "return" /\ (~evs.none <=> recorded)
            /\ cur.st = "return" /\ (~cur.none <=> recorded)

\* the operators of the changes passed to the apply in last
AppliedOps == {Normalize(last.state[i])[1] : i \in DOMAIN last.state}

\* C34: apply rejects an operator outside the closed set at write time: the
\* call fails and stores no event, so the event log only ever holds
\* operators of the closed set and no replay meets an unknown operator.
C34_UnknownOperatorRejected ==
    /\ (last.op = "apply" /\ ~(AppliedOps \subseteq ClosedOps))
       => last.ret.st = "raise" /\ esTable = pre.es
    /\ \A r \in esTable : pickle_loads(r.op) \in ClosedOps
    /\ \A k \in Keys : "AssertionError" \notin current(esTable, k).exc

\* C35: a failed apply leaves the log unchanged: whenever apply(key,
\* changes, t) raises, no event of the call is stored, and current(key)
\* afterwards returns the state it returned before the call.
C35_FailedApplyStoresNothing ==
    (last.op = "apply" /\ last.ret.st = "raise")
    => /\ esTable = pre.es
       /\ current(esTable, last.keys[1]) = current(pre.es, last.keys[1])
       /\ current(pre.es, last.keys[1]).st = "return"
          => current(esTable, last.keys[1]).st = "return"

\* C36: an explicitly supplied timestamp is always honoured: for every
\* integer t passed to apply(key, changes, t) with non-empty changes, t = 0
\* included, the events of the call are recorded at timestamp t, and the
\* wall clock is read only when no timestamp is supplied.
C36_TimestampHonoured ==
    (last.op = "apply" /\ last.state # EmptyState /\ last.t # None
        /\ esTable # pre.es)
    => /\ esTable \ pre.es
            = es_rows(ns_key(last.keys[1]), last.t[1], RawState(last.state), 0)
       /\ last.args = <<>>

====
